---- MODULE Spec2Model ----
(***************************************************************************)
(* Model of the chat front end (chatService.streamMessage, ChatInterface,  *)
(* ChatInput) and of the conversation token budget it drives.              *)
(*                                                                         *)
(* Text is modelled as a sequence of one-character strings, so that        *)
(* split('\n'), startsWith, slice and === are computed as the code         *)
(* computes them.                                                          *)
(***************************************************************************)
EXTENDS Integers, Sequences, FiniteSets, TLC

VARIABLES
    \* ---- chatService.streamMessage, one call (SpecStream)
    smPc,        \* "idle" | "fetch" | "reading" | "returned"
    respKind,    \* what fetch yields: "exception" | "httpError" | "noBody" | "ok"
    body,        \* the whole response body, as the server wrote it
    rest,        \* the part of body no reader.read() has returned yet
    buffer,      \* streamMessage's local `buffer`
    calls,       \* the callbacks invoked so far, in order
    outcome,     \* the line of streamMessage that ended the call
    \* ---- ChatInput options and the conversation they budget (SpecBudget)
    optTokenLimit,   \* options.tokenLimit
    optRatio,        \* options.summarizeTargetRatio, in hundredths
    convMsgs,        \* Conversation.messages: [kind, tokens] records, oldest first
    convTotal,       \* Conversation.token_count_total
    convTokenLimit,  \* Conversation.token_limit
    budgetError,     \* the last append raised BudgetError
    \* ---- ChatInterface and ChatInput state (SpecChat)
    messages,          \* useState messages: [role, content] records
    sessions,          \* useState sessions: the conversation ids listed
    currentSessionId,  \* useState currentSessionId; 0 is null
    isLoading,         \* useState isLoading
    isStreaming,       \* useState isStreaming
    error,             \* useState error; "none" is null
    streamingRef,      \* streamingMessageRef.current
    serviceHealth,     \* serviceHealth?.status; "null" before and after a failed check
    backendConnected,  \* useState backendConnected
    healthPending,     \* a loadServiceHealth call awaits its reply
    \* ---- the calls in flight and the backend they reach
    ops,               \* the async handlers awaiting a reply, each with its closure
    srvConvs,          \* ids of the conversations the backend holds
    nCreated,          \* conversations the backend has created so far
    ev,                \* the handler step that ran last, with what it saw
    \* ---- SessionList, one sidebar (SpecSidebar)
    listSessions,      \* the `sessions` prop: [id, last] records, last in hours
    renderNow,         \* new Date() of the render, in hours since the month began
    shownSessions,     \* the conversations as rendered, top to bottom
    \* ---- the backend's hybrid RAG service (SpecHybrid)
    ragService,        \* "none" while initializing, then "langchain" or "custom"
    initStage,         \* the LangChain initialization stage reached
    failAt,            \* the stage whose initialization raises; 0 when none does
    healthReport,      \* the last service information reported
    lastReply,         \* the answer to the last POST /chat/
    nRequests,         \* chat requests answered so far
    \* ---- vector search (SpecSearch)
    store,             \* the vector store: chunk id -> normalized similarity to the query
    searchHits,        \* what search_vectors returned last
    ragResults,        \* what the RAG-facing search returned for it
    shownResults,      \* the result cards SearchInterface shows for it
    \* ---- the three configuration forms (SpecConfig)
    chatModelConfig,   \* ChatModelConfig's useState config
    embedderConfig,    \* EmbedderConfig's useState config
    vectorDBConfig,    \* VectorDBConfig's useState config
    \* ---- the HTTP clients and the token they attach (SpecAuth)
    kcToken,           \* keycloakService.getToken(); 0 is undefined
    sent,              \* the requests sent to the backend, oldest first
    \* ---- keycloakService and KeycloakProvider (SpecKeycloak)
    kcInitialized,     \* KeycloakService.initialized
    kcSession,         \* "none" while this.keycloak is null, else the session
    refreshPending,    \* an updateToken started by onTokenExpired awaits its answer
    provUser,          \* useState user; "null" or the user of the token
    provAuth,          \* useState isAuthenticated
    provLoading,       \* useState isLoading
    provPc,            \* "unmounted" | "init" (awaiting init()) | "ready"
    nMounts,           \* KeycloakProvider instances mounted so far
    kcEv,              \* the handler step that ran last, with what it saw
    \* ---- the OpenAI settings block of EmbedderConfig (SpecFields)
    openaiSettings,    \* config.openai: max_retries, strip_new_lines, skip_empty
    fieldEdit,         \* the last edit: the field and the value entered
    \* ---- one call of SessionList.formatDate (SpecFormatDate)
    dateString,        \* the timestamp formatted, in hours since the month began; 0 before any call
    dateNow,           \* new Date() of the call
    dateLabel,         \* what formatDate returned; empty before any call
    \* ---- SearchInterface: the search form and what it shows (SpecSearchForm)
    query,             \* useState query
    results,           \* useState results: the chunk ids of the result cards
    loading,           \* useState loading
    searchResponse,    \* useState searchResponse; NoResponse is null
    searchError,       \* useState error; "none" is null
    searchOps,         \* the handleSearch calls awaiting uploadAPI.searchDocuments
    searchRequests,    \* the requests posted to /upload/search, oldest first
    searchEv           \* the handleSearch step that ran last, with what it saw

streamVars == <<smPc, respKind, body, rest, buffer, calls, outcome>>

budgetVars == <<optTokenLimit, optRatio, convMsgs, convTotal, convTokenLimit, budgetError>>

uiVars == <<messages, sessions, currentSessionId, isLoading, isStreaming, error,
            streamingRef, serviceHealth, backendConnected, healthPending>>

chatVars == <<uiVars, ops, srvConvs, nCreated, ev>>

sidebarVars == <<listSessions, renderNow, shownSessions>>

hybridVars == <<ragService, initStage, failAt, healthReport, lastReply, nRequests>>

searchVars == <<store, searchHits, ragResults, shownResults>>

configVars == <<chatModelConfig, embedderConfig, vectorDBConfig>>

authVars == <<kcToken, sent>>

keycloakVars == <<kcInitialized, kcSession, refreshPending, provUser, provAuth, provLoading, provPc, nMounts, kcEv>>

fieldVars == <<openaiSettings, fieldEdit>>

dateVars == <<dateString, dateNow, dateLabel>>

searchFormVars == <<query, results, loading, searchResponse, searchError, searchOps, searchRequests, searchEv>>

\* The components modelled apart from the chat view.
viewVars == <<sidebarVars, hybridVars, searchVars, configVars, authVars, keycloakVars, fieldVars, dateVars, searchFormVars>>

\* What the actions of one component leave unchanged.
notSidebar == <<streamVars, budgetVars, chatVars, hybridVars, searchVars, configVars, authVars, keycloakVars, fieldVars, dateVars, searchFormVars>>

notHybrid == <<streamVars, budgetVars, chatVars, sidebarVars, searchVars, configVars, authVars, keycloakVars, fieldVars, dateVars, searchFormVars>>

notSearch == <<streamVars, budgetVars, chatVars, sidebarVars, hybridVars, configVars, authVars, keycloakVars, fieldVars, dateVars, searchFormVars>>

notConfig == <<streamVars, budgetVars, chatVars, sidebarVars, hybridVars, searchVars, authVars, keycloakVars, fieldVars, dateVars, searchFormVars>>

notAuth == <<streamVars, budgetVars, chatVars, sidebarVars, hybridVars, searchVars, configVars, keycloakVars, fieldVars, dateVars, searchFormVars>>

notKeycloak == <<streamVars, budgetVars, chatVars, sidebarVars, hybridVars, searchVars, configVars, authVars, fieldVars, dateVars, searchFormVars>>

notFields == <<streamVars, budgetVars, chatVars, sidebarVars, hybridVars, searchVars, configVars, authVars, keycloakVars, dateVars, searchFormVars>>

notDate == <<streamVars, budgetVars, chatVars, sidebarVars, hybridVars, searchVars, configVars, authVars, keycloakVars, fieldVars, searchFormVars>>

notSearchForm == <<streamVars, budgetVars, chatVars, sidebarVars, hybridVars, searchVars, configVars, authVars, keycloakVars, fieldVars, dateVars>>

vars == <<streamVars, budgetVars, chatVars, viewVars>>

\* ------------------------------------------------------------------ bounds

\* Newline-terminated lines in a modelled response body.
MaxLines == 2

\* A message's approximate token count is 1..MaxMsgSteps times TokenStep.
MaxMsgSteps == 2

TokenStep == 300

\* Messages a modelled conversation holds at most.
MaxConvLen == 4

\* Messages the chat view shows at most when a message is submitted.
MaxMsgs == 2

\* loadSession, deleteSession and createNewSession calls awaiting a reply at
\* the same time.
MaxOps == 2

\* Of these, the calls the session list's own specification follows at the
\* same time.
MaxSessionOps == 1

\* sendMessage calls the model follows at the same time.
MaxSends == 2

\* Conversations the backend creates at most.
MaxConvs == 2

\* useState default of options.tokenLimit and of options.summarizeTargetRatio,
\* the ratio in hundredths.
DefaultTokenLimit == 1200

DefaultRatio == 80

\* ------------------------------------------------------------------- text

NL == "\n"

DataPrefix == <<"d", "a", "t", "a", ":", " ">>

DoneText == <<"[", "D", "O", "N", "E", "]">>

ErrorPrefix == <<"E", "r", "r", "o", "r", ":", " ">>

\* String.prototype.startsWith
StartsWith(s, p) ==
    /\ Len(s) >= Len(p)
    /\ SubSeq(s, 1, Len(p)) = p

\* String.prototype.slice(n), 0 <= n
Slice(s, n) == SubSeq(s, n + 1, Len(s))

IsPrefix(p, s) ==
    /\ Len(p) <= Len(s)
    /\ SubSeq(s, 1, Len(p)) = p

RECURSIVE SplitNL(_)
\* String.prototype.split('\n'): the segments between newlines; never empty.
SplitNL(s) ==
    IF \A i \in 1..Len(s) : s[i] # NL
    THEN <<s>>
    ELSE LET i == CHOOSE j \in 1..Len(s) :
                      /\ s[j] = NL
                      /\ \A k \in 1..(j - 1) : s[k] # NL
         IN <<SubSeq(s, 1, i - 1)>> \o SplitNL(SubSeq(s, i + 1, Len(s)))

Front(s) == SubSeq(s, 1, Len(s) - 1)

Last(s) == s[Len(s)]

RECURSIVE Concat(_)
Concat(ss) == IF ss = <<>> THEN <<>> ELSE Head(ss) \o Concat(Tail(ss))

\* ------------------------------------------------ chatService.streamMessage

\* `buffer = lines.pop() || ''` loses the partial line when it keeps nothing.
NextBufferDropped(lines) == <<>>

\* `buffer = lines.pop() || ''`: the text after the last newline.
NextBuffer(lines) == Last(lines)

RECURSIVE ProcessLinesNoReturn(_)
\* The for-loop with its `return`s dropped: later lines are still handled.
ProcessLinesNoReturn(lines) ==
    IF lines = <<>> THEN [calls |-> <<>>, returned |-> FALSE, how |-> "none"]
    ELSE LET line == Head(lines)
             more == ProcessLinesNoReturn(Tail(lines))
         IN  IF ~StartsWith(line, DataPrefix) THEN more
             ELSE LET chunk == Slice(line, 6)
                      call == IF chunk = DoneText THEN <<"complete">>
                              ELSE IF StartsWith(chunk, ErrorPrefix)
                                   THEN <<"error", Slice(chunk, 7)>>
                                   ELSE <<"chunk", chunk>>
                  IN [more EXCEPT !.calls = <<call>> \o @]

RECURSIVE ProcessLines(_)
\* The for-loop over the complete lines of one read: the callbacks it invokes,
\* whether it returned from streamMessage, and by which line.
ProcessLines(lines) ==
    IF lines = <<>> THEN [calls |-> <<>>, returned |-> FALSE, how |-> "none"]
    ELSE LET line == Head(lines)
         IN  IF ~StartsWith(line, DataPrefix) THEN ProcessLines(Tail(lines))
             ELSE LET chunk == Slice(line, 6)
                  IN  IF chunk = DoneText
                      THEN [calls |-> << <<"complete">> >>, returned |-> TRUE,
                            how |-> "doneEvent"]
                      ELSE IF StartsWith(chunk, ErrorPrefix)
                      THEN [calls |-> << <<"error", Slice(chunk, 7)>> >>,
                            returned |-> TRUE, how |-> "errorEvent"]
                      ELSE LET more == ProcessLines(Tail(lines))
                           IN [more EXCEPT !.calls = << <<"chunk", chunk>> >> \o @]

\* One pass of the while-loop body after a read that was not `done`:
\* append the decoded text to buffer, split, keep the tail, handle the lines.
ReadStep(buf, value) ==
    LET lines == SplitNL(buf \o value)
        r == ProcessLines(Front(lines))
    IN [buffer |-> NextBuffer(lines), calls |-> r.calls,
        returned |-> r.returned, how |-> r.how]

\* The message of the Error built in the catch block or thrown before reading.
TransportError == <<"!">>

IsTerminal(c) == c[1] \in {"complete", "error"}

ChunkArgs(cs) == LET idx == { i \in 1..Len(cs) : cs[i][1] = "chunk" }
                     f[i \in 0..Len(cs)] ==
                         IF i = 0 THEN <<>>
                         ELSE IF i \in idx THEN Append(f[i - 1], cs[i][2]) ELSE f[i - 1]
                 IN f[Len(cs)]

RECURSIVE DeltasBeforeTerminal(_)
\* The text after `data: ` of each data line that precedes the first
\* `[DONE]` or `Error: ` line.
DeltasBeforeTerminal(lines) ==
    IF lines = <<>> THEN <<>>
    ELSE LET line == Head(lines)
             text == Slice(line, Len(DataPrefix))
         IN  IF ~StartsWith(line, DataPrefix) THEN DeltasBeforeTerminal(Tail(lines))
             ELSE IF text = DoneText \/ StartsWith(text, ErrorPrefix) THEN <<>>
             ELSE <<text>> \o DeltasBeforeTerminal(Tail(lines))

\* What the protocol says the deltas of a whole body are, whatever the reads.
ExpectedChunks(b) == DeltasBeforeTerminal(Front(SplitNL(b)))

\* ------------------------------------------------------ response bodies

LineKinds ==
    { DataPrefix \o <<"a">>,
      DataPrefix,
      DataPrefix \o DoneText,
      DataPrefix \o ErrorPrefix \o <<"x">>,
      <<"d", "a", "t", "a", ":", "a">>,
      <<>> }

RECURSIVE SeqsUpTo(_, _)
SeqsUpTo(S, n) ==
    IF n = 0 THEN { <<>> }
    ELSE LET shorter == SeqsUpTo(S, n - 1)
         IN shorter \cup { Append(s, x) : s \in { t \in shorter : Len(t) = n - 1 }, x \in S }

Terminated(ls) == Concat([i \in 1..Len(ls) |-> ls[i] \o <<NL>>])

\* Up to MaxLines newline-terminated lines, then a possibly empty tail that
\* the server did not terminate before the body ended.
TailKinds ==
    { <<>>,
      DataPrefix \o <<"a">>,
      DataPrefix \o DoneText,
      DataPrefix \o ErrorPrefix \o <<"x">> }

Bodies == { Terminated(ls) \o tail : ls \in SeqsUpTo(LineKinds, MaxLines), tail \in TailKinds }

\* ------------------------------------------------------------ SpecStream

StreamIdle ==
    /\ smPc = "idle"
    /\ respKind = "ok"
    /\ body = <<>>
    /\ rest = <<>>
    /\ buffer = <<>>
    /\ calls = <<>>
    /\ outcome = "none"

BudgetIdle ==
    /\ optTokenLimit = DefaultTokenLimit
    /\ optRatio = DefaultRatio
    /\ convMsgs = <<>>
    /\ convTotal = 0
    /\ convTokenLimit = DefaultTokenLimit
    /\ budgetError = FALSE

\* ev after a step no property looks at.
Quiet == [type |-> "step"]

\* The chat view before it is mounted.
ChatIdle ==
    /\ messages = <<>>
    /\ sessions = {}
    /\ currentSessionId = 0
    /\ isLoading = FALSE
    /\ isStreaming = FALSE
    /\ error = "none"
    /\ streamingRef = <<>>
    /\ serviceHealth = "null"
    /\ backendConnected = TRUE
    /\ healthPending = FALSE
    /\ ops = {}
    /\ srvConvs = {}
    /\ nCreated = 0
    /\ ev = Quiet

\* The sidebar before it is rendered.
SidebarIdle ==
    /\ listSessions = <<>>
    /\ renderNow = 0
    /\ shownSessions = <<>>

\* No service information reported yet; no chat request answered yet.
NoReport == [status |-> "none"]

NoReply == [status |-> 0]

\* The backend before it is started.
HybridIdle ==
    /\ ragService = "none"
    /\ initStage = 0
    /\ failAt = 0
    /\ healthReport = NoReport
    /\ lastReply = NoReply
    /\ nRequests = 0

\* No search made yet.
SearchIdle ==
    /\ store = <<>>
    /\ searchHits = <<>>
    /\ ragResults = <<>>
    /\ shownResults = <<>>

\* A key of a config object that holds no settings sub-object.
Undefined == [undefined |-> TRUE]

\* The settings each form creates for a type. Of every settings object the
\* two text fields the forms edit first are kept; the numeric and boolean
\* fields are edited by the same spread and are left out.
ChatModelDefaults(type) ==
    CASE type = "openai" -> [api_key |-> "", model |-> "gpt-3.5-turbo"]
      [] type = "gemini" -> [api_key |-> "", model |-> "gemini-2.0-flash"]
      [] type = "local" -> [provider |-> "ollama", model |-> "llama2"]

EmbedderDefaults(type) ==
    CASE type = "openai" -> [api_key |-> "", model_name |-> "text-embedding-ada-002"]
      [] type = "huggingface" ->
           [model_name |-> "sentence-transformers/all-MiniLM-L6-v2", device |-> "cpu"]

VectorDBDefaults(type) ==
    CASE type = "pinecone" -> [api_key |-> "", index_name |-> "documents"]
      [] type = "chromadb" -> [host |-> "localhost", collection_name |-> "documents"]
      [] type = "qdrant" -> [host |-> "localhost", collection_name |-> "documents"]

\* The forms as constructed: the useState initial values.
ConfigIdle ==
    /\ chatModelConfig = [type |-> "openai", openai |-> ChatModelDefaults("openai"),
                          gemini |-> Undefined, local |-> Undefined]
    /\ embedderConfig = [type |-> "huggingface", openai |-> Undefined,
                         huggingface |-> EmbedderDefaults("huggingface")]
    /\ vectorDBConfig = [type |-> "chromadb", pinecone |-> Undefined,
                         chromadb |-> VectorDBDefaults("chromadb"),
                         qdrant |-> Undefined]

\* Nobody logged in, nothing sent.
AuthIdle ==
    /\ kcToken = 0
    /\ sent = <<>>

\* The page before KeycloakProvider is mounted.
KeycloakIdle ==
    /\ kcInitialized = FALSE
    /\ kcSession = "none"
    /\ refreshPending = FALSE
    /\ provUser = "null"
    /\ provAuth = FALSE
    /\ provLoading = TRUE
    /\ provPc = "unmounted"
    /\ nMounts = 0
    /\ kcEv = [type |-> "step"]

\* The OpenAI settings as handleTypeChange creates them; no edit yet.
FieldsIdle ==
    /\ openaiSettings = [max_retries |-> 3, strip_new_lines |-> TRUE, skip_empty |-> TRUE]
    /\ fieldEdit = [field |-> "none"]

\* No call of formatDate yet.
DateIdle ==
    /\ dateString = 0
    /\ dateNow = 0
    /\ dateLabel = <<>>

\* SearchInterface as mounted: nothing searched yet.
SearchFormIdle ==
    /\ query = <<>>
    /\ results = <<>>
    /\ loading = FALSE
    /\ searchResponse = [null |-> TRUE]
    /\ searchError = "none"
    /\ searchOps = {}
    /\ searchRequests = <<>>
    /\ searchEv = [type |-> "none"]

ViewIdle ==
    /\ SidebarIdle
    /\ HybridIdle
    /\ SearchIdle
    /\ ConfigIdle
    /\ AuthIdle
    /\ KeycloakIdle
    /\ FieldsIdle
    /\ DateIdle
    /\ SearchFormIdle

InitStream ==
    /\ ViewIdle
    /\ BudgetIdle
    /\ ChatIdle
    /\ smPc = "fetch"
    /\ respKind \in {"exception", "httpError", "noBody", "ok"}
    /\ body \in IF respKind = "ok" THEN Bodies ELSE { <<>> }
    /\ rest = body
    /\ buffer = <<>>
    /\ calls = <<>>
    /\ outcome = "none"

\* Lines 79-99: the token lookup and fetch reject, the status is not ok, or the
\* response has no body: the catch block calls onError.
FetchFails ==
    /\ smPc = "fetch"
    /\ respKind # "ok"
    /\ calls' = Append(calls, <<"error", TransportError>>)
    /\ outcome' = "exception"
    /\ smPc' = "returned"
    /\ UNCHANGED <<respKind, body, rest, buffer, budgetVars, chatVars, viewVars>>

\* Lines 83-102: an ok response with a body; the reader is taken.
FetchOk ==
    /\ smPc = "fetch"
    /\ respKind = "ok"
    /\ smPc' = "reading"
    /\ UNCHANGED <<respKind, body, rest, buffer, calls, outcome, budgetVars, chatVars, viewVars>>

\* Lines 105-126: reader.read() returns the next k characters of the body.
Read(k) ==
    /\ smPc = "reading"
    /\ k \in 1..Len(rest)
    /\ LET r == ReadStep(buffer, SubSeq(rest, 1, k))
       IN /\ buffer' = r.buffer
          /\ calls' = calls \o r.calls
          /\ smPc' = IF r.returned THEN "returned" ELSE "reading"
          /\ outcome' = IF r.returned THEN r.how ELSE outcome
    /\ rest' = Slice(rest, k)
    /\ UNCHANGED <<respKind, body, budgetVars, chatVars, viewVars>>

\* Lines 105-107, 129: the body has ended; read() reports done, the loop
\* breaks and onComplete is called.
ReadDone ==
    /\ smPc = "reading"
    /\ rest = <<>>
    /\ calls' = Append(calls, <<"complete">>)
    /\ outcome' = "eof"
    /\ smPc' = "returned"
    /\ UNCHANGED <<respKind, body, rest, buffer, budgetVars, chatVars, viewVars>>

\* Lines 105, 130-131: read() rejects (the connection broke).
ReadFails ==
    /\ smPc = "reading"
    /\ calls' = Append(calls, <<"error", TransportError>>)
    /\ outcome' = "exception"
    /\ smPc' = "returned"
    /\ UNCHANGED <<respKind, body, rest, buffer, budgetVars, chatVars, viewVars>>

NextStream ==
    \/ FetchFails
    \/ FetchOk
    \/ \E k \in 1..Len(rest) : Read(k)
    \/ ReadDone
    \/ ReadFails

SpecStream == InitStream /\ [][NextStream]_vars

\* ------------------------------------------- ChatInput options (SpecBudget)

\* Values of the Conversation Token Limit control (min 1000, step 1000), and
\* its default.
TokenLimits == {1000, DefaultTokenLimit, 2000}

\* Approximate token counts of single messages.
MsgSizes == { k * TokenStep : k \in 1..MaxMsgSteps }

\* A control that lets a ratio above 1 through.
RatiosAboveOne == {50, 80, 95, 150}

\* Values of the Summarize Target Ratio control (min 0.5, max 0.95), in
\* hundredths.
Ratios == {50, 80, 95}

\* ----------------------------------------------- TokenBudgetManager (4.4)

\* The most recent messages summarization always keeps verbatim.
RecentWindow == 2

RECURSIVE SumTokens(_)
SumTokens(ms) == IF ms = <<>> THEN 0 ELSE Head(ms).tokens + SumTokens(Tail(ms))

\* token_count_total > token_limit * summarize_target_ratio
OverTarget(total, limit, ratio) == total * 100 > limit * ratio

\* The oldest contiguous run: everything but the most recent RecentWindow.
OldRun(ms) == SubSeq(ms, 1, Len(ms) - RecentWindow)

Recent(ms) == SubSeq(ms, Len(ms) - RecentWindow + 1, Len(ms))

\* The sizes a summary of `run` may have: always smaller than what it replaces.
SummarySizes(run) == { s \in {0} \cup MsgSizes : s < SumTokens(run) }

\* The run replaced by one synthetic summary message of s tokens.
Summarized(ms, s) == <<[kind |-> "summary", tokens |-> s]>> \o Recent(ms)

\* onChange of the Conversation Token Limit control.
SetTokenLimit(v) ==
    /\ smPc = "idle"
    /\ v # optTokenLimit
    /\ optTokenLimit' = v
    /\ UNCHANGED <<optRatio, convMsgs, convTotal, convTokenLimit, budgetError, streamVars, chatVars, viewVars>>

\* onChange of the Summarize Target Ratio control.
SetRatio(v) ==
    /\ smPc = "idle"
    /\ v # optRatio
    /\ optRatio' = v
    /\ UNCHANGED <<optTokenLimit, convMsgs, convTotal, convTokenLimit, budgetError, streamVars, chatVars, viewVars>>

\* A chat request appends a message of t tokens that leaves the total at or
\* under the summarization target: the manager stays Normal.
AppendNormal(t) ==
    /\ smPc = "idle"
    /\ Len(convMsgs) < MaxConvLen
    /\ LET ms == Append(convMsgs, [kind |-> "message", tokens |-> t])
       IN /\ ~OverTarget(SumTokens(ms), optTokenLimit, optRatio)
          /\ convMsgs' = ms
          /\ convTotal' = SumTokens(ms)
    /\ convTokenLimit' = optTokenLimit
    /\ budgetError' = FALSE
    /\ UNCHANGED <<optTokenLimit, optRatio, streamVars, chatVars, viewVars>>

\* The append takes the total over the target: Summarizing replaces the old
\* run by a summary of s tokens, recomputes the total and raises BudgetError
\* when it still exceeds token_limit.
AppendSummarizing(t, s) ==
    /\ smPc = "idle"
    /\ Len(convMsgs) < MaxConvLen
    /\ LET ms == Append(convMsgs, [kind |-> "message", tokens |-> t])
       IN /\ OverTarget(SumTokens(ms), optTokenLimit, optRatio)
          /\ Len(ms) > RecentWindow
          /\ s \in SummarySizes(OldRun(ms))
          /\ convMsgs' = Summarized(ms, s)
          /\ convTotal' = SumTokens(Summarized(ms, s))
          /\ budgetError' = (SumTokens(Summarized(ms, s)) > optTokenLimit)
    /\ convTokenLimit' = optTokenLimit
    /\ UNCHANGED <<optTokenLimit, optRatio, streamVars, chatVars, viewVars>>

\* The append takes the total over the target and there is no run to
\* summarize: only the recent window is left, and BudgetError is raised when
\* it alone exceeds token_limit.
AppendNoRun(t) ==
    /\ smPc = "idle"
    /\ Len(convMsgs) < MaxConvLen
    /\ LET ms == Append(convMsgs, [kind |-> "message", tokens |-> t])
       IN /\ OverTarget(SumTokens(ms), optTokenLimit, optRatio)
          /\ Len(ms) <= RecentWindow
          /\ convMsgs' = ms
          /\ convTotal' = SumTokens(ms)
          /\ budgetError' = (SumTokens(ms) > optTokenLimit)
    /\ convTokenLimit' = optTokenLimit
    /\ UNCHANGED <<optTokenLimit, optRatio, streamVars, chatVars, viewVars>>

InitBudget ==
    /\ ViewIdle
    /\ StreamIdle
    /\ ChatIdle
    /\ BudgetIdle

NextBudget ==
    \/ \E v \in TokenLimits : SetTokenLimit(v)
    \/ \E v \in Ratios : SetRatio(v)
    \/ \E t \in MsgSizes : AppendNormal(t)
    \/ \E t \in MsgSizes, s \in {0} \cup MsgSizes : AppendSummarizing(t, s)
    \/ \E t \in MsgSizes : AppendNoRun(t)

SpecBudget == InitBudget /\ [][NextBudget]_vars

C2_ExactlyOneTerminal ==
    /\ \A i \in 1..Len(calls) : IsTerminal(calls[i]) => i = Len(calls)
    /\ smPc = "returned" => (calls # <<>> /\ IsTerminal(Last(calls)))

\* C2 witness: a call that delivered a chunk and then ended on an error event
\* with part of the body still unread.
C2_Witness ==
    /\ smPc = "returned"
    /\ outcome = "errorEvent"
    /\ Len(calls) = 2
    /\ calls[1][1] = "chunk"
    /\ rest # <<>>

\* C3: the onChunk arguments are, in order, the texts of the newline-terminated
\* data lines before the first [DONE] / Error: line of the body: always a
\* prefix of them, and all of them once the call ends by an event or by the
\* end of the body, however the body was split across reads.
C3_ChunksFollowBody ==
    /\ IsPrefix(ChunkArgs(calls), ExpectedChunks(body))
    /\ outcome \in {"doneEvent", "errorEvent", "eof"}
          => ChunkArgs(calls) = ExpectedChunks(body)

\* C3 witness: a chunk has been delivered and a later read ended in the middle
\* of the `data: ` prefix of the next line, which is still to be completed.
C3_Witness ==
    /\ smPc = "reading"
    /\ ChunkArgs(calls) # <<>>
    /\ buffer # <<>>
    /\ Len(buffer) < Len(DataPrefix)
    /\ IsPrefix(buffer, DataPrefix)
    /\ Len(ExpectedChunks(body)) > Len(ChunkArgs(calls))

\* C5: onComplete is invoked only when a `data: [DONE]` line was processed.
C5_CompleteOnlyAfterDone ==
    \A i \in 1..Len(calls) : calls[i] = <<"complete">> => outcome = "doneEvent"

\* ------------------------------------------------ ChatInput, ChatInterface

UserMsg(c) == [role |-> "user", content |-> c]

AsstMsg(c) == [role |-> "assistant", content |-> c]

IsSpace(ch) == ch \in {" ", NL}

RECURSIVE TrimStart(_)
TrimStart(s) == IF s # <<>> /\ IsSpace(Head(s)) THEN TrimStart(Tail(s)) ELSE s

RECURSIVE TrimEnd(_)
TrimEnd(s) == IF s # <<>> /\ IsSpace(Last(s)) THEN TrimEnd(Front(s)) ELSE s

\* String.prototype.trim
Trim(s) == TrimEnd(TrimStart(s))

\* Texts typed into the textarea.
Inputs == { <<"q">>, <<" ">>, <<"q", " ">> }

\* response.message of a non-streaming reply.
ReplyText == <<"r">>

\* session.messages as GET /chat/conversations/{id} may return them.
Histories == { <<>>, <<UserMsg(<<"h">>), AsstMsg(<<"k">>)>> }

\* const isServiceReady = serviceHealth?.status === 'ready'
IsServiceReady == serviceHealth = "ready"

\* ChatInput's `disabled` and `isLoading` props as ChatInterface passes them.
Disabled == ~IsServiceReady \/ ~backendConnected

InputLoading == isLoading \/ isStreaming

\* handleSubmit's guard with the isLoading prop left out.
CanSubmitWhileLoading(input) == Trim(input) # <<>> /\ ~Disabled

\* handleSubmit: if (message.trim() && !disabled && !isLoading)
CanSubmit(input) == Trim(input) # <<>> /\ ~Disabled /\ ~InputLoading

Sends == { o \in ops : o.kind \in {"send", "stream"} }

NavOps == { o \in ops : o.kind \in {"load", "delete", "create"} }

\* useEffect on mount: loadServiceHealth() and loadSessions() are called; the
\* backend holds one conversation from an earlier visit.
InitChat ==
    /\ ViewIdle
    /\ StreamIdle
    /\ BudgetIdle
    /\ messages = <<>>
    /\ sessions = {}
    /\ currentSessionId = 0
    /\ isLoading = FALSE
    /\ isStreaming = FALSE
    /\ error = "none"
    /\ streamingRef = <<>>
    /\ serviceHealth = "null"
    /\ backendConnected = TRUE
    /\ healthPending = TRUE
    /\ ops = { [kind |-> "list"] }
    /\ srvConvs = {1}
    /\ nCreated = 1
    /\ ev = Quiet
\* A catch block without setBackendConnected(false).
HealthReplyKeepsConnected(r) ==
    /\ healthPending
    /\ healthPending' = FALSE
    /\ IF r \in {"network", "fail"}
       THEN /\ backendConnected' = backendConnected
            /\ serviceHealth' = "null"
            /\ error' = IF r = "network"
                        THEN "Backend server is not running or not accessible"
                        ELSE "Failed to connect to chat service"
       ELSE /\ serviceHealth' = r
            /\ backendConnected' = TRUE
            /\ error' = "none"
    /\ ev' = [type |-> "health", result |-> r]
    /\ UNCHANGED <<messages, sessions, currentSessionId, isLoading, isStreaming,
                   streamingRef, ops, srvConvs, nCreated>>
    /\ UNCHANGED <<streamVars, budgetVars, viewVars>>

\* loadServiceHealth: the reply of GET /chat/health, or its failure.
HealthReply(r) ==
    /\ healthPending
    /\ healthPending' = FALSE
    /\ IF r \in {"network", "fail"}
       THEN /\ backendConnected' = FALSE
            /\ serviceHealth' = "null"
            /\ error' = IF r = "network"
                        THEN "Backend server is not running or not accessible"
                        ELSE "Failed to connect to chat service"
       ELSE /\ serviceHealth' = r
            /\ backendConnected' = TRUE
            /\ error' = "none"
    /\ ev' = [type |-> "health", result |-> r]
    /\ UNCHANGED <<messages, sessions, currentSessionId, isLoading, isStreaming,
                   streamingRef, ops, srvConvs, nCreated>>
    /\ UNCHANGED <<streamVars, budgetVars, viewVars>>

\* The Retry Connection button, rendered while !backendConnected.
RetryHealth ==
    /\ ~backendConnected
    /\ ~healthPending
    /\ healthPending' = TRUE
    /\ ev' = Quiet
    /\ UNCHANGED <<messages, sessions, currentSessionId, isLoading, isStreaming, error,
                   streamingRef, serviceHealth, backendConnected, ops, srvConvs, nCreated>>
    /\ UNCHANGED <<streamVars, budgetVars, viewVars>>

\* loadSessions called on mount or by onComplete: the list arrives, or the
\* failure is only logged.
ListReply(o, ok) ==
    /\ o \in ops
    /\ o.kind = "list"
    /\ sessions' = IF ok THEN srvConvs ELSE sessions
    /\ ops' = ops \ {o}
    /\ ev' = Quiet
    /\ UNCHANGED <<messages, currentSessionId, isLoading, isStreaming, error,
                   streamingRef, serviceHealth, backendConnected, healthPending,
                   srvConvs, nCreated>>
    /\ UNCHANGED <<streamVars, budgetVars, viewVars>>

\* ChatInput.handleSubmit and the synchronous part of sendMessage, called with
\* the typed text and options.stream as the checkbox stands: the user
\* message is appended and the error cleared; a streaming send sets
\* isStreaming, resets the ref and appends the placeholder, then awaits
\* createConversation (no current conversation) or the stream; a
\* non-streaming send sets isLoading and awaits POST /chat/.
Submit(input, stream) ==
    /\ CanSubmit(input)
    /\ Len(messages) <= MaxMsgs
    /\ Cardinality(Sends) < MaxSends
    /\ LET c == Trim(Trim(input))
           withUser == Append(messages, UserMsg(c))
       IN IF stream
          THEN /\ isStreaming' = TRUE
               /\ streamingRef' = <<>>
               /\ messages' = Append(withUser, AsstMsg(<<>>))
               /\ ops' = ops \cup
                    { [kind |-> "stream",
                       pc |-> IF currentSessionId = 0 THEN "create" ELSE "fetch",
                       sid |-> currentSessionId, base |-> messages, user |-> c,
                       rest |-> <<>>, buffer |-> <<>>,
                       chunks |-> 0, closed |-> FALSE] }
               /\ UNCHANGED isLoading
          ELSE /\ isLoading' = TRUE
               /\ messages' = withUser
               /\ ops' = ops \cup
                    { [kind |-> "send", pc |-> "post", cs |-> currentSessionId,
                       base |-> messages, user |-> c] }
               /\ UNCHANGED <<isStreaming, streamingRef>>
    /\ error' = "none"
    /\ ev' = Quiet
    /\ UNCHANGED <<sessions, currentSessionId, serviceHealth, backendConnected,
                   healthPending, srvConvs, nCreated>>
    /\ UNCHANGED <<streamVars, budgetVars, viewVars>>

\* The conversation a chat request with conversation_id cid is answered in:
\* cid itself, or a new one when the request names none; 0 when the backend
\* has no such conversation (or, in the model, creates no more).
AnsweredIn(cid) ==
    IF cid = 0 THEN (IF nCreated < MaxConvs THEN nCreated + 1 ELSE 0)
    ELSE IF cid \in srvConvs THEN cid ELSE 0

\* sendMessage, non-streaming, lines 217-242: the reply arrives; the assistant
\* message is appended, the conversation id adopted when the closure had
\* none, and loadSessions awaited.
SendReplyOk(o) ==
    /\ o \in ops
    /\ o.kind = "send"
    /\ o.pc = "post"
    /\ AnsweredIn(o.cs) # 0
    /\ LET id == AnsweredIn(o.cs)
       IN /\ srvConvs' = srvConvs \cup {id}
          /\ nCreated' = IF o.cs = 0 THEN nCreated + 1 ELSE nCreated
          /\ currentSessionId' = IF o.cs = 0 THEN id ELSE currentSessionId
    /\ messages' = Append(messages, AsstMsg(ReplyText))
    /\ ops' = (ops \ {o}) \cup { [o EXCEPT !.pc = "reload"] }
    /\ ev' = Quiet
    /\ UNCHANGED <<sessions, isLoading, isStreaming, error, streamingRef,
                   serviceHealth, backendConnected, healthPending>>
    /\ UNCHANGED <<streamVars, budgetVars, viewVars>>

\* sendMessage, lines 242, 248-250: the awaited loadSessions ends (its failure
\* is only logged) and the finally block clears isLoading.
SendReloadDone(o, ok) ==
    /\ o \in ops
    /\ o.kind = "send"
    /\ o.pc = "reload"
    /\ sessions' = IF ok THEN srvConvs ELSE sessions
    /\ isLoading' = FALSE
    /\ ops' = ops \ {o}
    /\ ev' = Quiet
    /\ UNCHANGED <<messages, currentSessionId, isStreaming, error, streamingRef,
                   serviceHealth, backendConnected, healthPending, srvConvs, nCreated>>
    /\ UNCHANGED <<streamVars, budgetVars, viewVars>>

\* The messages the catch block of sendMessage may show: error.message of the
\* rejection, or its fallback text.
SendErrors == { "Network Error", "Failed to send message" }

\* The catch block of a failed non-streaming send that also drops the user
\* message.
SendReplyFailDropsUser(o, msg) ==
    /\ o \in ops
    /\ o.kind = "send"
    /\ o.pc = "post"
    /\ error' = msg
    /\ isLoading' = FALSE
    /\ messages' = IF messages = <<>> THEN messages ELSE Front(messages)
    /\ ops' = ops \ {o}
    /\ ev' = [type |-> "sendFailed", before |-> messages, base |-> o.base,
              user |-> o.user]
    /\ UNCHANGED <<sessions, currentSessionId, isStreaming, streamingRef,
                   serviceHealth, backendConnected, healthPending, srvConvs, nCreated>>
    /\ UNCHANGED <<streamVars, budgetVars, viewVars>>

\* sendMessage, lines 217, 244-250: POST /chat/ rejects; the catch block sets
\* the error and the finally block clears isLoading.
SendReplyFail(o, msg) ==
    /\ o \in ops
    /\ o.kind = "send"
    /\ o.pc = "post"
    /\ error' = msg
    /\ isLoading' = FALSE
    /\ ops' = ops \ {o}
    /\ ev' = [type |-> "sendFailed", before |-> messages, base |-> o.base,
              user |-> o.user]
    /\ UNCHANGED <<messages, sessions, currentSessionId, isStreaming, streamingRef,
                   serviceHealth, backendConnected, healthPending, srvConvs, nCreated>>
    /\ UNCHANGED <<streamVars, budgetVars, viewVars>>

\* ------------------------------------------- sendMessage, streaming branch

\* prev => prev.slice(0, -1)
DropLast(ms) == IF ms = <<>> THEN <<>> ELSE Front(ms)

\* onError with the placeholder left in place.
OnErrorMessagesKept(ms) == ms

\* onError / the createConversation catch: the last message is removed.
OnErrorMessages(ms) == DropLast(ms)

\* The onChunk updater: the last message, when it is an assistant message,
\* gets the text `written` as its content.
WriteLast(ms, written) ==
    IF ms # <<>> /\ Last(ms).role = "assistant"
    THEN [ms EXCEPT ![Len(ms)] = [@ EXCEPT !.content = written]]
    ELSE ms

\* Response bodies of the streaming endpoint as the chat view meets them.
ChatBodies ==
    { Terminated(<<DataPrefix \o <<"a">>, DataPrefix \o DoneText>>),
      Terminated(<<DataPrefix \o <<"a">>, DataPrefix \o ErrorPrefix \o <<"x">>>>),
      Terminated(<<DataPrefix \o <<"a">>>>),
      Terminated(<<DataPrefix \o ErrorPrefix \o <<"x">>>>) }

\* A read of the chat view's stream ends after a line, at the end of what
\* is left, or MidCut characters into it.
MidCut == 3

MaxBodyLen == CHOOSE n \in 0..64 : \A b \in ChatBodies : Len(b) <= n /\ \E c \in ChatBodies : Len(c) = n

CutPoints(r) == { k \in 1..Len(r) : r[k] = NL \/ k = Len(r) \/ k = MidCut }

StreamFailedEv(o, how, n) ==
    [type |-> "streamFailed", how |-> how, before |-> messages, base |-> o.base,
     user |-> o.user, chunks |-> n, closed |-> o.closed]

StreamCompletedEv(o, how, n) ==
    [type |-> "streamCompleted", how |-> how, before |-> messages, base |-> o.base,
     user |-> o.user, chunks |-> n, closed |-> o.closed]

\* Lines 159-164: createConversation answers; its id is used and adopted.
StreamCreateOk(o) ==
    /\ o \in ops
    /\ o.kind = "stream"
    /\ o.pc = "create"
    /\ nCreated < MaxConvs
    /\ nCreated' = nCreated + 1
    /\ srvConvs' = srvConvs \cup {nCreated + 1}
    /\ currentSessionId' = nCreated + 1
    /\ ops' = (ops \ {o}) \cup { [o EXCEPT !.pc = "fetch", !.sid = nCreated + 1] }
    /\ ev' = Quiet
    /\ UNCHANGED <<messages, sessions, isLoading, isStreaming, error, streamingRef,
                   serviceHealth, backendConnected, healthPending>>
    /\ UNCHANGED <<streamVars, budgetVars, viewVars>>

\* A catch block without its return: the stream is requested all the same,
\* with sessionIdToUse still null.
StreamCreateFailStillSends(o) ==
    /\ o \in ops
    /\ o.kind = "stream"
    /\ o.pc = "create"
    /\ isStreaming' = FALSE
    /\ error' = "Failed to create session"
    /\ messages' = OnErrorMessages(messages)
    /\ ops' = (ops \ {o}) \cup { [o EXCEPT !.pc = "fetch"] }
    /\ ev' = [type |-> "streamCreateFailed", before |-> messages, base |-> o.base,
              user |-> o.user]
    /\ UNCHANGED <<sessions, currentSessionId, isLoading, streamingRef, serviceHealth,
                   backendConnected, healthPending, srvConvs, nCreated>>
    /\ UNCHANGED <<streamVars, budgetVars, viewVars>>

\* Lines 165-171, 248-250: createConversation rejects.
StreamCreateFail(o) ==
    /\ o \in ops
    /\ o.kind = "stream"
    /\ o.pc = "create"
    /\ isStreaming' = FALSE
    /\ error' = "Failed to create session"
    /\ messages' = OnErrorMessages(messages)
    /\ isLoading' = FALSE
    /\ ops' = ops \ {o}
    /\ ev' = [type |-> "streamCreateFailed", before |-> messages, base |-> o.base,
              user |-> o.user]
    /\ UNCHANGED <<sessions, currentSessionId, streamingRef, serviceHealth,
                   backendConnected, healthPending, srvConvs, nCreated>>
    /\ UNCHANGED <<streamVars, budgetVars, viewVars>>

\* An onError that leaves isStreaming set.
StreamFetchFailKeepsStreaming(o) ==
    /\ o \in ops
    /\ o.kind = "stream"
    /\ o.pc = "fetch"
    /\ error' = "Streaming error"
    /\ messages' = OnErrorMessages(messages)
    /\ isLoading' = FALSE
    /\ ops' = ops \ {o}
    /\ ev' = StreamFailedEv(o, "exception", 0)
    /\ UNCHANGED <<sessions, currentSessionId, isStreaming, streamingRef, serviceHealth,
                   backendConnected, healthPending, srvConvs, nCreated>>
    /\ UNCHANGED <<streamVars, budgetVars, viewVars>>

\* streamMessage lines 79-99, 130-132 with the onError of lines 207-212, then
\* the finally block: fetch rejects, the status is not ok or there is no body.
StreamFetchFail(o) ==
    /\ o \in ops
    /\ o.kind = "stream"
    /\ o.pc = "fetch"
    /\ isStreaming' = FALSE
    /\ error' = "Streaming error"
    /\ messages' = OnErrorMessages(messages)
    /\ isLoading' = FALSE
    /\ ops' = ops \ {o}
    /\ ev' = StreamFailedEv(o, "exception", 0)
    /\ UNCHANGED <<sessions, currentSessionId, streamingRef, serviceHealth,
                   backendConnected, healthPending, srvConvs, nCreated>>
    /\ UNCHANGED <<streamVars, budgetVars, viewVars>>

\* streamMessage lines 83-102: an ok response whose body will be b.
StreamFetchOk(o, b) ==
    /\ o \in ops
    /\ o.kind = "stream"
    /\ o.pc = "fetch"
    /\ ops' = (ops \ {o}) \cup { [o EXCEPT !.pc = "reading", !.rest = b] }
    /\ ev' = Quiet
    /\ UNCHANGED <<uiVars, srvConvs, nCreated>>
    /\ UNCHANGED <<streamVars, budgetVars, viewVars>>

\* streamMessage lines 105-126 with the callbacks of lines 187-212: one read
\* returns the next k characters. Each onChunk appends to the ref and queues
\* an updater that writes the ref into the last assistant message; the
\* updater reads the ref when React runs it: at once (deferred = FALSE) or
\* after the callbacks of this read, when onComplete may have reset the ref.
\* A [DONE] line runs onComplete, an Error: line onError, and either returns
\* from streamMessage, after which the finally block clears isLoading.
StreamRead(o, k, deferred) ==
    /\ o \in ops
    /\ o.kind = "stream"
    /\ o.pc = "reading"
    /\ k \in CutPoints(o.rest)
    /\ LET r == ReadStep(o.buffer, SubSeq(o.rest, 1, k))
           texts == ChunkArgs(r.calls)
           n == o.chunks + Len(texts)
           refAfter == streamingRef \o Concat(texts)
           refEnd == IF r.how = "doneEvent" THEN <<>> ELSE refAfter
           written == IF deferred THEN refEnd ELSE refAfter
           shown == IF texts = <<>> THEN messages ELSE WriteLast(messages, written)
       IN /\ streamingRef' = refEnd
          /\ messages' = IF r.how = "errorEvent" THEN OnErrorMessages(shown) ELSE shown
          /\ error' = IF r.how = "errorEvent" THEN "Streaming error" ELSE error
          /\ isStreaming' = IF r.returned THEN FALSE ELSE isStreaming
          /\ isLoading' = IF r.returned THEN FALSE ELSE isLoading
          /\ ops' = IF r.returned
                    THEN (ops \ {o}) \cup
                         (IF r.how = "doneEvent" THEN { [kind |-> "list"] } ELSE {})
                    ELSE (ops \ {o}) \cup
                         { [o EXCEPT !.rest = Slice(o.rest, k), !.buffer = r.buffer,
                                     !.chunks = n] }
          /\ ev' = IF r.how = "errorEvent" THEN StreamFailedEv(o, "errorEvent", n)
                   ELSE IF r.how = "doneEvent" THEN StreamCompletedEv(o, "doneEvent", n)
                   ELSE Quiet
    /\ UNCHANGED <<sessions, currentSessionId, serviceHealth, backendConnected,
                   healthPending, srvConvs, nCreated>>
    /\ UNCHANGED <<streamVars, budgetVars, viewVars>>

\* The connection is closed before the whole body has arrived: what was not
\* read yet never arrives.
StreamClose(o) ==
    /\ o \in ops
    /\ o.kind = "stream"
    /\ o.pc = "reading"
    /\ o.rest # <<>>
    /\ ops' = (ops \ {o}) \cup { [o EXCEPT !.rest = <<>>, !.closed = TRUE] }
    /\ ev' = Quiet
    /\ UNCHANGED <<uiVars, srvConvs, nCreated>>
    /\ UNCHANGED <<streamVars, budgetVars, viewVars>>

\* streamMessage lines 105-107, 129 with the onComplete of lines 201-205, then
\* the finally block: read() reports done at the end of what arrived.
StreamReadDone(o) ==
    /\ o \in ops
    /\ o.kind = "stream"
    /\ o.pc = "reading"
    /\ o.rest = <<>>
    /\ isStreaming' = FALSE
    /\ streamingRef' = <<>>
    /\ isLoading' = FALSE
    /\ ops' = (ops \ {o}) \cup { [kind |-> "list"] }
    /\ ev' = StreamCompletedEv(o, "eof", o.chunks)
    /\ UNCHANGED <<messages, sessions, currentSessionId, error, serviceHealth,
                   backendConnected, healthPending, srvConvs, nCreated>>
    /\ UNCHANGED <<streamVars, budgetVars, viewVars>>

\* streamMessage lines 105, 130-132 with the onError of lines 207-212, then the
\* finally block: read() rejects.
StreamReadFail(o) ==
    /\ o \in ops
    /\ o.kind = "stream"
    /\ o.pc = "reading"
    /\ isStreaming' = FALSE
    /\ error' = "Streaming error"
    /\ messages' = OnErrorMessages(messages)
    /\ isLoading' = FALSE
    /\ ops' = ops \ {o}
    /\ ev' = StreamFailedEv(o, "exception", o.chunks)
    /\ UNCHANGED <<sessions, currentSessionId, streamingRef, serviceHealth,
                   backendConnected, healthPending, srvConvs, nCreated>>
    /\ UNCHANGED <<streamVars, budgetVars, viewVars>>

\* ---------------------- loadSession, deleteSession, createNewSession

\* SessionList onClick of a listed session: loadSession(sid) is called.
SelectSession(sid) ==
    /\ sid \in sessions
    /\ Cardinality(NavOps) < MaxOps
    /\ ops' = ops \cup { [kind |-> "load", sid |-> sid] }
    /\ ev' = Quiet
    /\ UNCHANGED <<messages, sessions, currentSessionId, isLoading, isStreaming, error,
                   streamingRef, serviceHealth, backendConnected, healthPending,
                   srvConvs, nCreated>>
    /\ UNCHANGED <<streamVars, budgetVars, viewVars>>

\* loadSession lines 109-112: the history arrives and replaces the view.
LoadReplyOk(o, hist) ==
    /\ o \in ops
    /\ o.kind = "load"
    /\ o.sid \in srvConvs
    /\ currentSessionId' = o.sid
    /\ messages' = hist
    /\ ops' = ops \ {o}
    /\ ev' = Quiet
    /\ UNCHANGED <<sessions, isLoading, isStreaming, error, streamingRef,
                   serviceHealth, backendConnected, healthPending, srvConvs,
                   nCreated>>
    /\ UNCHANGED <<streamVars, budgetVars, viewVars>>

\* A loadSession catch block that also clears the view.
LoadReplyNotFoundClears(o) ==
    /\ o \in ops
    /\ o.kind = "load"
    /\ o.sid \notin srvConvs
    /\ error' = "Failed to load session"
    /\ currentSessionId' = 0
    /\ messages' = <<>>
    /\ ops' = ops \ {o}
    /\ ev' = [type |-> "loadNotFound", before |-> messages, csBefore |-> currentSessionId]
    /\ UNCHANGED <<sessions, isLoading, isStreaming, streamingRef, serviceHealth,
                   backendConnected, healthPending, srvConvs, nCreated>>
    /\ UNCHANGED <<streamVars, budgetVars, viewVars>>

\* loadSession lines 109, 113-116: the backend has no such conversation and
\* answers not-found; chatApi rejects and the catch block sets the error.
LoadReplyNotFound(o) ==
    /\ o \in ops
    /\ o.kind = "load"
    /\ o.sid \notin srvConvs
    /\ error' = "Failed to load session"
    /\ ops' = ops \ {o}
    /\ ev' = [type |-> "loadNotFound", before |-> messages, csBefore |-> currentSessionId]
    /\ UNCHANGED <<messages, sessions, currentSessionId, isLoading, isStreaming,
                   streamingRef, serviceHealth, backendConnected, healthPending,
                   srvConvs, nCreated>>
    /\ UNCHANGED <<streamVars, budgetVars, viewVars>>

\* loadSession lines 109, 113-116: the request fails for another reason.
LoadReplyFail(o) ==
    /\ o \in ops
    /\ o.kind = "load"
    /\ error' = "Failed to load session"
    /\ ops' = ops \ {o}
    /\ ev' = Quiet
    /\ UNCHANGED <<messages, sessions, currentSessionId, isLoading, isStreaming,
                   streamingRef, serviceHealth, backendConnected, healthPending,
                   srvConvs, nCreated>>
    /\ UNCHANGED <<streamVars, budgetVars, viewVars>>

\* SessionList delete button, confirmed: deleteSession(sid) is called with
\* the currentSessionId of this render in its closure.
DeleteClick(sid) ==
    /\ sid \in sessions
    /\ Cardinality(NavOps) < MaxOps
    /\ ops' = ops \cup { [kind |-> "delete", pc |-> "delete", sid |-> sid,
                          cs |-> currentSessionId] }
    /\ ev' = Quiet
    /\ UNCHANGED <<messages, sessions, currentSessionId, isLoading, isStreaming, error,
                   streamingRef, serviceHealth, backendConnected, healthPending,
                   srvConvs, nCreated>>
    /\ UNCHANGED <<streamVars, budgetVars, viewVars>>

\* deleteSession lines 121-122: the backend deletes the conversation;
\* loadSessions is awaited.
DeleteReplyOk(o) ==
    /\ o \in ops
    /\ o.kind = "delete"
    /\ o.pc = "delete"
    /\ o.sid \in srvConvs
    /\ srvConvs' = srvConvs \ {o.sid}
    /\ ops' = (ops \ {o}) \cup { [o EXCEPT !.pc = "reload"] }
    /\ ev' = Quiet
    /\ UNCHANGED <<messages, sessions, currentSessionId, isLoading, isStreaming, error,
                   streamingRef, serviceHealth, backendConnected, healthPending,
                   nCreated>>
    /\ UNCHANGED <<streamVars, budgetVars, viewVars>>

\* deleteSession lines 121, 127-130: the conversation is already gone and
\* the backend answers not-found; chatApi rejects and the catch block runs.
DeleteReplyNotFound(o) ==
    /\ o \in ops
    /\ o.kind = "delete"
    /\ o.pc = "delete"
    /\ o.sid \notin srvConvs
    /\ error' = "Failed to delete session"
    /\ ops' = ops \ {o}
    /\ ev' = [type |-> "deleteNotFound", errorBefore |-> error, sid |-> o.sid]
    /\ UNCHANGED <<messages, sessions, currentSessionId, isLoading, isStreaming,
                   streamingRef, serviceHealth, backendConnected, healthPending,
                   srvConvs, nCreated>>
    /\ UNCHANGED <<streamVars, budgetVars, viewVars>>

\* deleteSession lines 121, 127-130: the request fails for another reason.
DeleteReplyFail(o) ==
    /\ o \in ops
    /\ o.kind = "delete"
    /\ o.pc = "delete"
    /\ error' = "Failed to delete session"
    /\ ops' = ops \ {o}
    /\ ev' = Quiet
    /\ UNCHANGED <<messages, sessions, currentSessionId, isLoading, isStreaming,
                   streamingRef, serviceHealth, backendConnected, healthPending,
                   srvConvs, nCreated>>
    /\ UNCHANGED <<streamVars, budgetVars, viewVars>>

\* deleteSession lines 122-126: the awaited loadSessions ends; the view is
\* cleared when the closure's currentSessionId is the deleted id.
DeleteReloadDone(o, ok) ==
    /\ o \in ops
    /\ o.kind = "delete"
    /\ o.pc = "reload"
    /\ sessions' = IF ok THEN srvConvs ELSE sessions
    /\ IF o.cs = o.sid
       THEN /\ currentSessionId' = 0
            /\ messages' = <<>>
            /\ ops' = ops \ {o}
       ELSE /\ UNCHANGED <<currentSessionId, messages>>
            /\ ops' = ops \ {o}
    /\ ev' = Quiet
    /\ UNCHANGED <<isLoading, isStreaming, error, streamingRef, serviceHealth,
                   backendConnected, healthPending, srvConvs, nCreated>>
    /\ UNCHANGED <<streamVars, budgetVars, viewVars>>

\* The New Chat buttons: createNewSession is called.
NewChat ==
    /\ Cardinality(NavOps) < MaxOps
    /\ ops' = ops \cup { [kind |-> "create", pc |-> "create"] }
    /\ ev' = Quiet
    /\ UNCHANGED <<messages, sessions, currentSessionId, isLoading, isStreaming, error,
                   streamingRef, serviceHealth, backendConnected, healthPending,
                   srvConvs, nCreated>>
    /\ UNCHANGED <<streamVars, budgetVars, viewVars>>

\* createNewSession lines 96-99: the conversation is created and becomes the
\* empty current one; loadSessions is awaited.
CreateReplyOk(o) ==
    /\ o \in ops
    /\ o.kind = "create"
    /\ o.pc = "create"
    /\ nCreated < MaxConvs
    /\ nCreated' = nCreated + 1
    /\ srvConvs' = srvConvs \cup {nCreated + 1}
    /\ currentSessionId' = nCreated + 1
    /\ messages' = <<>>
    /\ ops' = (ops \ {o}) \cup { [o EXCEPT !.pc = "reload"] }
    /\ ev' = Quiet
    /\ UNCHANGED <<sessions, isLoading, isStreaming, error, streamingRef,
                   serviceHealth, backendConnected, healthPending>>
    /\ UNCHANGED <<streamVars, budgetVars, viewVars>>

\* createNewSession lines 96, 101-104: createConversation rejects.
CreateReplyFail(o) ==
    /\ o \in ops
    /\ o.kind = "create"
    /\ o.pc = "create"
    /\ error' = "Failed to create new session"
    /\ ops' = ops \ {o}
    /\ ev' = Quiet
    /\ UNCHANGED <<messages, sessions, currentSessionId, isLoading, isStreaming,
                   streamingRef, serviceHealth, backendConnected, healthPending,
                   srvConvs, nCreated>>
    /\ UNCHANGED <<streamVars, budgetVars, viewVars>>

\* createNewSession lines 99-100: the awaited loadSessions ends.
CreateReloadDone(o, ok) ==
    /\ o \in ops
    /\ o.kind = "create"
    /\ o.pc = "reload"
    /\ sessions' = IF ok THEN srvConvs ELSE sessions
    /\ ops' = ops \ {o}
    /\ ev' = Quiet
    /\ UNCHANGED <<messages, currentSessionId, isLoading, isStreaming, error,
                   streamingRef, serviceHealth, backendConnected, healthPending,
                   srvConvs, nCreated>>
    /\ UNCHANGED <<streamVars, budgetVars, viewVars>>

\* The x of the error banner: setError(null).
DismissError ==
    /\ error # "none"
    /\ error' = "none"
    /\ ev' = Quiet
    /\ UNCHANGED <<messages, sessions, currentSessionId, isLoading, isStreaming,
                   streamingRef, serviceHealth, backendConnected, healthPending,
                   ops, srvConvs, nCreated>>
    /\ UNCHANGED <<streamVars, budgetVars, viewVars>>

NextChat ==
    \/ \E r \in {"ready", "not_ready", "network", "fail"} : HealthReply(r)
    \/ RetryHealth
    \/ \E o \in ops, ok \in BOOLEAN : ListReply(o, ok)
    \/ \E input \in Inputs, stream \in BOOLEAN : Submit(input, stream)
    \/ \E o \in ops : SendReplyOk(o)
    \/ \E o \in ops, ok \in BOOLEAN : SendReloadDone(o, ok)
    \/ \E o \in ops, msg \in SendErrors : SendReplyFail(o, msg)
    \/ \E o \in ops : StreamCreateOk(o)
    \/ \E o \in ops : StreamCreateFail(o)
    \/ \E o \in ops : StreamFetchFail(o)
    \/ \E o \in ops, b \in ChatBodies : StreamFetchOk(o, b)
    \/ \E o \in ops, k \in 1..MaxBodyLen, d \in BOOLEAN : StreamRead(o, k, d)
    \/ \E o \in ops : StreamClose(o)
    \/ \E o \in ops : StreamReadDone(o)
    \/ \E o \in ops : StreamReadFail(o)
    \/ DismissError

\* The chat view during its turns: health checks, sends and streams.
SpecChat == InitChat /\ [][NextChat]_vars

\* The chat view once the health check has answered ready, the session list
\* still loading.
InitSessions ==
    /\ ViewIdle
    /\ StreamIdle
    /\ BudgetIdle
    /\ messages = <<>>
    /\ sessions = {}
    /\ currentSessionId = 0
    /\ isLoading = FALSE
    /\ isStreaming = FALSE
    /\ error = "none"
    /\ streamingRef = <<>>
    /\ serviceHealth = "ready"
    /\ backendConnected = TRUE
    /\ healthPending = FALSE
    /\ ops = { [kind |-> "list"] }
    /\ srvConvs = {1}
    /\ nCreated = 1
    /\ ev = Quiet

NextSessions ==
    \/ \E o \in ops, ok \in BOOLEAN : ListReply(o, ok)
    \/ \E sid \in sessions : Cardinality(NavOps) < MaxSessionOps /\ SelectSession(sid)
    \/ \E o \in ops, hist \in Histories : LoadReplyOk(o, hist)
    \/ \E o \in ops : LoadReplyNotFound(o)
    \/ \E o \in ops : LoadReplyFail(o)
    \/ \E sid \in sessions : Cardinality(NavOps) < MaxSessionOps /\ DeleteClick(sid)
    \/ \E o \in ops : DeleteReplyOk(o)
    \/ \E o \in ops : DeleteReplyNotFound(o)
    \/ \E o \in ops : DeleteReplyFail(o)
    \/ \E o \in ops, ok \in BOOLEAN : DeleteReloadDone(o, ok)
    \/ Cardinality(NavOps) < MaxSessionOps /\ NewChat
    \/ \E o \in ops : CreateReplyOk(o)
    \/ \E o \in ops : CreateReplyFail(o)
    \/ \E o \in ops, ok \in BOOLEAN : CreateReloadDone(o, ok)
    \/ DismissError

\* The session list: loading, deleting and creating conversations.
SpecSessions == InitSessions /\ [][NextSessions]_vars

\* ------------------------------------------------- properties of the chat view

\* What the view shows of a turn that left no assistant message: the
\* messages shown when it was submitted, then the user's message.
TurnWithoutReply(e) == Append(e.base, UserMsg(e.user))

\* C4: when a streaming turn fails (an Error: event, a response that is not
\* ok, a rejected fetch or read) after any number of deltas, the view ends
\* with the user's message as its last message and no assistant message of
\* the turn (placeholder and partial text removed), isStreaming is false and
\* an error is set.
C4_StreamFailureRemovesPlaceholder ==
    ev.type = "streamFailed" =>
        /\ messages = TurnWithoutReply(ev)
        /\ isStreaming = FALSE
        /\ error # "none"

\* An Error: event after a delta, in a view that already showed messages.
C4_Witness ==
    /\ ev.type = "streamFailed"
    /\ ev.how = "errorEvent"
    /\ ev.chunks >= 1
    /\ ev.base # <<>>
    /\ Last(ev.before) = AsstMsg(<<"a">>)

\* C6: a stream whose connection was closed after some but not all of its
\* chunks leaves no assistant message of the turn in the conversation shown.
C6_ClosedStreamLeavesNoAssistant ==
    (ev.type \in {"streamCompleted", "streamFailed"} /\ ev.closed /\ ev.chunks >= 1) =>
        messages = TurnWithoutReply(ev)

\* C7: when a non-streaming request fails, the user's message stays the last
\* message shown, no assistant message is added, an error is set and
\* isLoading is false again, so the input accepts a further send.
C7_SendFailureKeepsUserMessage ==
    ev.type = "sendFailed" =>
        /\ messages = TurnWithoutReply(ev)
        /\ error # "none"
        /\ isLoading = FALSE
        /\ ~InputLoading

\* A failed request in a view that already showed a full turn.
C7_Witness ==
    /\ ev.type = "sendFailed"
    /\ Len(ev.base) >= 2
    /\ Last(ev.base).role = "assistant"

\* C8: sends of one view are issued one at a time: at most one request or
\* stream is pending, and while one is pending isLoading or isStreaming
\* holds, which keeps handleSubmit from submitting.
C8_OneSendAtATime ==
    /\ Cardinality(Sends) <= 1
    /\ Sends # {} => (InputLoading /\ \A input \in Inputs : ~CanSubmit(input))

\* A second turn pending after a first one was answered, the service ready.
C8_Witness ==
    /\ ~Disabled
    /\ \E o \in Sends : Len(o.base) >= 2 /\ Last(o.base).role = "assistant"

\* ---------------------------------------------- properties of the session list

\* C9: a second delete of a conversation, answered as not-found, leaves what
\* the first delete left and is not treated as a failure: no error is set.
C9_SecondDeleteIsNoFailure ==
    ev.type = "deleteNotFound" => error = ev.errorBefore

\* C10: loadSession of an id the backend does not know sets an error and
\* leaves currentSessionId and the messages shown as they were.
C10_UnknownLoadChangesOnlyError ==
    ev.type = "loadNotFound" =>
        /\ error = "Failed to load session"
        /\ currentSessionId = ev.csBefore
        /\ messages = ev.before

\* An unknown id selected while another conversation's history is shown.
C10_Witness ==
    /\ ev.type = "loadNotFound"
    /\ ev.csBefore # 0
    /\ ev.before # <<>>

\* ------------------------------------------------------------- SessionList

\* 1000 * 60 * 60 * 24 milliseconds, in the model's unit of one hour.
HoursPerDay == 24

\* The day of the month the sidebar is first rendered on.
NowDay == 20

\* Activities lie 1..MaxAgeSteps times AgeStep hours before the first render.
AgeStep == 23

MaxAgeSteps == 8

\* Conversations a modelled list holds at most.
MaxListed == 3

\* Hours the clock advances at most between the first render and a later one.
MaxTicks == 2

NowBase == NowDay * HoursPerDay

Activities == { NowBase - k * AgeStep : k \in 1..MaxAgeSteps }

Abs(n) == IF n < 0 THEN 0 - n ELSE n

\* Math.ceil(a / b) for a >= 0
CeilDiv(a, b) == (a + b - 1) \div b

DigitChars == <<"0", "1", "2", "3", "4", "5", "6", "7", "8", "9">>

\* String(n) for 0 <= n <= 99
Digits(n) ==
    IF n < 10 THEN <<DigitChars[n + 1]>>
    ELSE <<DigitChars[(n \div 10) + 1], DigitChars[(n % 10) + 1]>>

\* String(n) for -99 <= n <= 99
NumberText(n) == IF n < 0 THEN <<"-">> \o Digits(0 - n) ELSE Digits(n)

TodayText == <<"T", "o", "d", "a", "y">>

YesterdayText == <<"Y", "e", "s", "t", "e", "r", "d", "a", "y">>

DaysAgoText == <<" ", "d", "a", "y", "s", " ", "a", "g", "o">>

\* date.toLocaleDateString() in the en-US locale, every modelled time lying
\* in November 2026.
MonthText == <<"1", "1">>

YearText == <<"2", "0", "2", "6">>

DateText(t) == MonthText \o <<"/">> \o Digits((t \div HoursPerDay) + 1) \o <<"/">> \o YearText

\* formatDate(dateString) evaluated at the time `now`
FormatDate(t, now) ==
    LET diffDays == CeilDiv(Abs(now - t), HoursPerDay)
    IN IF diffDays = 1 THEN TodayText
       ELSE IF diffDays = 2 THEN YesterdayText
       ELSE IF diffDays <= 7 THEN NumberText(diffDays - 1) \o DaysAgoText
       ELSE DateText(t)

\* The collation order of the characters the compared labels are made of:
\* white space, punctuation, digits, letters.
CollationOrder ==
    <<" ", "/", "0", "1", "2", "3", "4", "5", "6", "7", "8", "9",
      "a", "d", "g", "o", "s", "y">>

CharRank(c) == CHOOSE i \in 1..Len(CollationOrder) : CollationOrder[i] = c

\* a.localeCompare(b): negative, zero or positive
RECURSIVE LocaleCompare(_, _)
LocaleCompare(a, b) ==
    IF a = <<>> /\ b = <<>> THEN 0
    ELSE IF a = <<>> THEN 0 - 1
    ELSE IF b = <<>> THEN 1
    ELSE IF Head(a) = Head(b) THEN LocaleCompare(Tail(a), Tail(b))
    ELSE IF CharRank(Head(a)) < CharRank(Head(b)) THEN 0 - 1
    ELSE 1

\* ['Today', 'Yesterday'].indexOf(label), -1 as 0 - 1
OrderIndex(label) ==
    IF label = TodayText THEN 0 ELSE IF label = YesterdayText THEN 1 ELSE 0 - 1

\* The comparator of sortedGroups, applied to two group labels.
GroupCompare(a, b) ==
    LET aIndex == OrderIndex(a)
        bIndex == OrderIndex(b)
    IN IF aIndex # 0 - 1 /\ bIndex # 0 - 1 THEN aIndex - bIndex
       ELSE IF aIndex # 0 - 1 THEN 0 - 1
       ELSE IF bIndex # 0 - 1 THEN 1
       ELSE LocaleCompare(b, a)

\* One step of the reduce: the session joins the group of its label, a new
\* label opening a group after the ones there are.
AddToGroups(groups, session, now) ==
    LET date == FormatDate(session.last, now)
    IN IF \E i \in 1..Len(groups) : groups[i].label = date
       THEN [i \in 1..Len(groups) |->
               IF groups[i].label = date
               THEN [groups[i] EXCEPT !.items = Append(@, session)]
               ELSE groups[i]]
       ELSE Append(groups, [label |-> date, items |-> <<session>>])

\* groupedSessions, its entries in insertion order
RECURSIVE GroupedSessions(_, _, _)
GroupedSessions(list, groups, now) ==
    IF list = <<>> THEN groups
    ELSE GroupedSessions(Tail(list), AddToGroups(groups, Head(list), now), now)

\* Array.prototype.sort is stable: an entry is placed after every entry the
\* comparator does not put behind it.
RECURSIVE InsertGroup(_, _)
InsertGroup(g, sorted) ==
    IF sorted = <<>> THEN <<g>>
    ELSE IF GroupCompare(g.label, Head(sorted).label) < 0 THEN <<g>> \o sorted
    ELSE <<Head(sorted)>> \o InsertGroup(g, Tail(sorted))

RECURSIVE SortedGroups(_)
SortedGroups(groups) ==
    IF groups = <<>> THEN <<>>
    ELSE InsertGroup(Last(groups), SortedGroups(Front(groups)))

\* groupSessions.sort((a, b) => time(b.last_activity) - time(a.last_activity))
RECURSIVE InsertSession(_, _)
InsertSession(x, sorted) ==
    IF sorted = <<>> THEN <<x>>
    ELSE IF Head(sorted).last - x.last < 0 THEN <<x>> \o sorted
    ELSE <<Head(sorted)>> \o InsertSession(x, Tail(sorted))

RECURSIVE SortSessions(_)
SortSessions(items) ==
    IF items = <<>> THEN <<>>
    ELSE InsertSession(Last(items), SortSessions(Front(items)))

\* The conversations in the order the sidebar shows them, top to bottom.
Rendered(list, now) ==
    LET groups == SortedGroups(GroupedSessions(list, <<>>, now))
    IN Concat([i \in 1..Len(groups) |-> SortSessions(groups[i].items)])

\* The lists GET /chat/conversations answers with: sorted by last_activity
\* descending.
ListedSessions ==
    { [i \in 1..Len(l) |-> [id |-> i, last |-> l[i]]] :
        l \in { m \in SeqsUpTo(Activities, MaxListed) :
                  \A i, j \in 1..Len(m) : i < j => m[i] >= m[j] } }

InitSidebar ==
    /\ StreamIdle
    /\ BudgetIdle
    /\ ChatIdle
    /\ SearchFormIdle
    /\ DateIdle
    /\ FieldsIdle
    /\ KeycloakIdle
    /\ HybridIdle
    /\ SearchIdle
    /\ ConfigIdle
    /\ AuthIdle
    /\ listSessions = <<>>
    /\ renderNow = NowBase
    /\ shownSessions = <<>>

\* setSessions(response.conversations): the sidebar renders the new list.
SessionsArrive(l) ==
    /\ listSessions' = l
    /\ shownSessions' = Rendered(l, renderNow)
    /\ UNCHANGED renderNow
    /\ UNCHANGED notSidebar

\* A later render of the same list: formatDate reads the clock again.
RenderLater(d) ==
    /\ renderNow + d <= NowBase + MaxTicks
    /\ renderNow' = renderNow + d
    /\ shownSessions' = Rendered(listSessions, renderNow + d)
    /\ UNCHANGED listSessions
    /\ UNCHANGED notSidebar

NextSidebar ==
    \/ \E l \in ListedSessions : SessionsArrive(l)
    \/ \E d \in 1..MaxTicks : RenderLater(d)

SpecSidebar == InitSidebar /\ [][NextSidebar]_vars

\* C11: of any two conversations shown in the sidebar, the one shown earlier
\* has a last_activity later than or equal to the one shown later, across
\* the date groups as well as within one.
C11_ShownByActivityDescending ==
    \A i, j \in 1..Len(shownSessions) :
        i < j => shownSessions[i].last >= shownSessions[j].last

\* ------------------------------------------------------- Hybrid RAG service

\* Chat requests a modelled backend answers at most.
MaxRequests == 3

\* What the LangChain RAG service initializes, in order.
InitStages == <<"embeddings", "vectorstore", "chat_model", "retrieval_chain">>

\* The backend starts: the hybrid service attempts LangChain first. The stage
\* that will raise, if any, is fixed by the configuration and environment.
InitHybrid ==
    /\ StreamIdle
    /\ BudgetIdle
    /\ ChatIdle
    /\ SearchFormIdle
    /\ DateIdle
    /\ FieldsIdle
    /\ KeycloakIdle
    /\ SidebarIdle
    /\ SearchIdle
    /\ ConfigIdle
    /\ AuthIdle
    /\ ragService = "none"
    /\ initStage = 1
    /\ failAt \in 0..Len(InitStages)
    /\ healthReport = NoReport
    /\ lastReply = NoReply
    /\ nRequests = 0

\* A stage of the LangChain initialization succeeds; after the last one the
\* LangChain service is the one used.
LangChainStageOk ==
    /\ ragService = "none"
    /\ initStage # failAt
    /\ initStage' = initStage + 1
    /\ ragService' = IF initStage = Len(InitStages) THEN "langchain" ELSE "none"
    /\ UNCHANGED <<failAt, healthReport, lastReply, nRequests>>
    /\ UNCHANGED notHybrid

\* A failed LangChain initialization left in place: its components are missing.
LangChainFailsNoFallback ==
    /\ ragService = "none"
    /\ initStage = failAt
    /\ ragService' = "langchain_missing_components"
    /\ UNCHANGED <<initStage, failAt, healthReport, lastReply, nRequests>>
    /\ UNCHANGED notHybrid

\* A stage raises: the hybrid service falls back to the original RAG service.
LangChainFails ==
    /\ ragService = "none"
    /\ initStage = failAt
    /\ ragService' = "custom"
    /\ UNCHANGED <<initStage, failAt, healthReport, lastReply, nRequests>>
    /\ UNCHANGED notHybrid

\* The service information the backend gives once initialized: ready with
\* the active service type, or the components that are missing.
ServiceInfo ==
    IF ragService \in {"langchain", "custom"}
    THEN [status |-> "ready", service_type |-> ragService]
    ELSE [status |-> "not_ready", service_type |-> ragService]

CheckHealth ==
    /\ ragService # "none"
    /\ healthReport' = ServiceInfo
    /\ UNCHANGED <<ragService, initStage, failAt, lastReply, nRequests>>
    /\ UNCHANGED notHybrid

\* POST /chat/ with use_rag as given; the retrieval of a use_rag request may
\* raise. A retrieval error is logged and the request answered 500; any
\* other request is answered 200, with retrieved context when use_rag.
ChatRequest(use_rag, retrievalRaises) ==
    /\ ragService # "none"
    /\ nRequests < MaxRequests
    /\ nRequests' = nRequests + 1
    /\ lastReply' =
         IF ragService \notin {"langchain", "custom"}
         THEN [status |-> 500, use_rag |-> use_rag, retrievalFailed |-> FALSE,
               context |-> FALSE, degraded |-> FALSE]
         ELSE IF use_rag /\ retrievalRaises
         THEN [status |-> 500, use_rag |-> use_rag, retrievalFailed |-> TRUE,
               context |-> FALSE, degraded |-> FALSE]
         ELSE [status |-> 200, use_rag |-> use_rag, retrievalFailed |-> FALSE,
               context |-> use_rag, degraded |-> FALSE]
    /\ UNCHANGED <<ragService, initStage, failAt, healthReport>>
    /\ UNCHANGED notHybrid

NextHybrid ==
    \/ LangChainStageOk
    \/ LangChainFails
    \/ CheckHealth
    \/ \E use_rag \in BOOLEAN, retrievalRaises \in BOOLEAN : ChatRequest(use_rag, retrievalRaises)

SpecHybrid == InitHybrid /\ [][NextHybrid]_vars

MaxChunks == 3

\* Normalized scores are multiples of 1 / MaxScoreSteps.
MaxScoreSteps == 4

\* A score of 1.0 in the model's unit of one hundredth.
ScoreOne == 100

Scores == { (k * ScoreOne) \div MaxScoreSteps : k \in 0..MaxScoreSteps }

ChunkIds == 1..MaxChunks

\* The hit x comes before the hit y: higher score first, ties by chunk_id.
HitBefore(x, y) ==
    x.score > y.score \/ (x.score = y.score /\ x.chunk_id < y.chunk_id)

RECURSIVE InsertHit(_, _)
InsertHit(x, sorted) ==
    IF sorted = <<>> THEN <<x>>
    ELSE IF HitBefore(x, Head(sorted)) THEN <<x>> \o sorted
    ELSE <<Head(sorted)>> \o InsertHit(x, Tail(sorted))

RECURSIVE SortHits(_)
SortHits(hs) ==
    IF hs = <<>> THEN <<>> ELSE InsertHit(Last(hs), SortHits(Front(hs)))

\* The first n elements of s, or s when it is shorter.
Take(s, n) == SubSeq(s, 1, IF Len(s) < n THEN Len(s) ELSE n)

\* search_vectors(query_vector, top_k, threshold): the chunks whose
\* normalized score reaches the threshold, best first, top_k at most.
SearchVectors(st, top_k, threshold) ==
    LET all == [c \in ChunkIds |-> [chunk_id |-> c, score |-> st[c]]]
        kept == SelectSeq(all, LAMBDA h : h.score >= threshold)
    IN Take(SortHits(kept), top_k)

\* A wrapper that hands the results over in the opposite order.
SearchWrapperReversed(hits) ==
    [i \in 1..Len(hits) |->
        [content |-> hits[Len(hits) + 1 - i].chunk_id,
         score |-> hits[Len(hits) + 1 - i].score,
         metadata |-> [chunk_id |-> hits[Len(hits) + 1 - i].chunk_id]]]

\* BaseVectorDBClient.search: the list comprehension over search_results;
\* a chunk's content is modelled by its id.
SearchWrapper(hits) ==
    [i \in 1..Len(hits) |->
        [content |-> hits[i].chunk_id,
         score |-> hits[i].score,
         metadata |-> [chunk_id |-> hits[i].chunk_id]]]

\* SearchInterface: results.map((result, index) => ...), the card showing
\* #index + 1 and formatScore(result.score), here in whole percent.
ResultCards(hits) ==
    [i \in 1..Len(hits) |->
        [rank |-> i, chunk_id |-> hits[i].chunk_id,
         percent |-> (hits[i].score * 100) \div ScoreOne]]

InitSearch ==
    /\ StreamIdle
    /\ BudgetIdle
    /\ ChatIdle
    /\ SearchFormIdle
    /\ DateIdle
    /\ FieldsIdle
    /\ KeycloakIdle
    /\ SidebarIdle
    /\ HybridIdle
    /\ ConfigIdle
    /\ AuthIdle
    /\ store \in [ChunkIds -> Scores]
    /\ searchHits = <<>>
    /\ ragResults = <<>>
    /\ shownResults = <<>>

\* One search: the store is queried, the RAG service gets the wrapper's
\* list and the search page shows the response's results.
Search(top_k, threshold) ==
    /\ searchHits' = SearchVectors(store, top_k, threshold)
    /\ ragResults' = SearchWrapper(searchHits')
    /\ shownResults' = ResultCards(searchHits')
    /\ UNCHANGED store
    /\ UNCHANGED notSearch

NextSearch ==
    \E top_k \in 1..MaxChunks, threshold \in Scores : Search(top_k, threshold)

SpecSearch == InitSearch /\ [][NextSearch]_vars

ChatModelTypes == {"openai", "gemini", "local"}

EmbedderTypes == {"openai", "huggingface"}

VectorDBTypes == {"pinecone", "chromadb", "qdrant"}

\* What a user types into or selects in a text field.
FieldValues == {"", "x"}

\* { ...settings, [field]: value }; spreading undefined contributes no field.
WithField(settings, field, value) ==
    LET old == IF settings = Undefined THEN {} ELSE DOMAIN settings
    IN  [f \in old \cup {field} |-> IF f = field THEN value ELSE settings[f]]

\* The object handleTypeChange builds in each form.
NewChatModelConfig(type) ==
    [type |-> type,
     openai |-> IF type = "openai" THEN ChatModelDefaults("openai") ELSE Undefined,
     gemini |-> IF type = "gemini" THEN ChatModelDefaults("gemini") ELSE Undefined,
     local |-> IF type = "local" THEN ChatModelDefaults("local") ELSE Undefined]

NewEmbedderConfig(type) ==
    LET newConfig == [type |-> type, openai |-> Undefined, huggingface |-> Undefined]
    IN  IF type = "openai"
        THEN [newConfig EXCEPT !.openai = EmbedderDefaults("openai")]
        ELSE IF type = "huggingface"
        THEN [newConfig EXCEPT !.huggingface = EmbedderDefaults("huggingface")]
        ELSE newConfig

\* A type change that spreads the previous config would keep its settings;
\* here the settings of every type are created at once.
NewVectorDBConfigAllTypes(type) ==
    [type |-> type, pinecone |-> VectorDBDefaults("pinecone"),
     chromadb |-> VectorDBDefaults("chromadb"),
     qdrant |-> VectorDBDefaults("qdrant")]

NewVectorDBConfig(type) ==
    LET newConfig == [type |-> type, pinecone |-> Undefined,
                      chromadb |-> Undefined, qdrant |-> Undefined]
    IN  IF type = "pinecone"
        THEN [newConfig EXCEPT !.pinecone = VectorDBDefaults("pinecone")]
        ELSE IF type = "chromadb"
        THEN [newConfig EXCEPT !.chromadb = VectorDBDefaults("chromadb")]
        ELSE IF type = "qdrant"
        THEN [newConfig EXCEPT !.qdrant = VectorDBDefaults("qdrant")]
        ELSE newConfig

InitConfig ==
    /\ StreamIdle
    /\ BudgetIdle
    /\ ChatIdle
    /\ SearchFormIdle
    /\ DateIdle
    /\ FieldsIdle
    /\ KeycloakIdle
    /\ SidebarIdle
    /\ HybridIdle
    /\ SearchIdle
    /\ ConfigIdle
    /\ AuthIdle

ChatModelHandleTypeChange(type) ==
    /\ chatModelConfig' = NewChatModelConfig(type)
    /\ UNCHANGED <<embedderConfig, vectorDBConfig>>
    /\ UNCHANGED notConfig

\* An input of the settings block shown for the selected type; the block is
\* rendered only while the config holds settings for it.
ChatModelFieldEdit(field, value) ==
    LET t == chatModelConfig.type
    IN  /\ chatModelConfig[t] # Undefined
        /\ field \in DOMAIN ChatModelDefaults(t)
        /\ chatModelConfig' =
             [chatModelConfig EXCEPT ![t] = WithField(chatModelConfig[t], field, value)]
        /\ UNCHANGED <<embedderConfig, vectorDBConfig>>
        /\ UNCHANGED notConfig

EmbedderHandleTypeChange(type) ==
    /\ embedderConfig' = NewEmbedderConfig(type)
    /\ UNCHANGED <<chatModelConfig, vectorDBConfig>>
    /\ UNCHANGED notConfig

\* The block is rendered whenever its type is selected.
EmbedderFieldEdit(field, value) ==
    LET t == embedderConfig.type
    IN  /\ field \in DOMAIN EmbedderDefaults(t)
        /\ embedderConfig' =
             [embedderConfig EXCEPT ![t] = WithField(embedderConfig[t], field, value)]
        /\ UNCHANGED <<chatModelConfig, vectorDBConfig>>
        /\ UNCHANGED notConfig

VectorDBHandleTypeChange(type) ==
    /\ vectorDBConfig' = NewVectorDBConfig(type)
    /\ UNCHANGED <<chatModelConfig, embedderConfig>>
    /\ UNCHANGED notConfig

VectorDBFieldEdit(field, value) ==
    LET t == vectorDBConfig.type
    IN  /\ field \in DOMAIN VectorDBDefaults(t)
        /\ vectorDBConfig' =
             [vectorDBConfig EXCEPT ![t] = WithField(vectorDBConfig[t], field, value)]
        /\ UNCHANGED <<chatModelConfig, embedderConfig>>
        /\ UNCHANGED notConfig

ChatModelFields == {"api_key", "model", "provider"}

EmbedderFields == {"api_key", "model_name", "device"}

VectorDBFields == {"api_key", "index_name", "host", "collection_name"}

NextConfig ==
    \/ \E type \in ChatModelTypes : ChatModelHandleTypeChange(type)
    \/ \E field \in ChatModelFields, value \in FieldValues :
         ChatModelFieldEdit(field, value)
    \/ \E type \in EmbedderTypes : EmbedderHandleTypeChange(type)
    \/ \E field \in EmbedderFields, value \in FieldValues :
         EmbedderFieldEdit(field, value)
    \/ \E type \in VectorDBTypes : VectorDBHandleTypeChange(type)
    \/ \E field \in VectorDBFields, value \in FieldValues :
         VectorDBFieldEdit(field, value)

SpecConfig == InitConfig /\ [][NextConfig]_vars

\* The keys of config under which a settings sub-object is stored.
SettingsKeys(config, types) == { k \in types : config[k] # Undefined }

\* C16: in each of the three configuration forms, after any sequence of type
\* selections and field edits from the default, the config holds a settings
\* sub-object under the key equal to its type tag and under no other type key.
C16_SettingsOnlyUnderType ==
    /\ SettingsKeys(chatModelConfig, ChatModelTypes) = {chatModelConfig.type}
    /\ SettingsKeys(embedderConfig, EmbedderTypes) = {embedderConfig.type}
    /\ SettingsKeys(vectorDBConfig, VectorDBTypes) = {vectorDBConfig.type}

\* Every form has left its default type and had a field of the new type edited.
C16_Witness ==
    /\ chatModelConfig.type = "local"
    /\ chatModelConfig.local # Undefined
    /\ chatModelConfig.local.model = "x"
    /\ embedderConfig.type = "openai"
    /\ embedderConfig.openai # Undefined
    /\ embedderConfig.openai.api_key = "x"
    /\ vectorDBConfig.type = "qdrant"
    /\ vectorDBConfig.qdrant # Undefined
    /\ vectorDBConfig.qdrant.host = "x"

\* ------------------------------------------- the HTTP clients and the token

\* Tokens Keycloak issues during a run.
MaxTokens == 2

\* Requests followed per run.
MaxSent == 3

\* `Bearer ${token}`
Bearer(token) == <<"Bearer", token>>

\* A header that is not set.
NoHeader == <<>>

\* chatApi's request interceptor: the header is set from the token held when
\* the request is made, and deleted when none is held. The dynamic import of
\* keycloakService resolves: the module is already loaded by the Keycloak
\* context.
ChatApiInterceptor(config, token) ==
    IF token # 0
    THEN [config EXCEPT !.Authorization = Bearer(token)]
    ELSE [config EXCEPT !.Authorization = NoHeader]

\* streamMessage's fetch: headers built from the token read just before.
StreamFetchHeaders(token) ==
    [ContentType |-> "application/json",
     Authorization |-> IF token # 0 THEN Bearer(token) ELSE NoHeader]

\* A request config as axios hands it to the interceptors and to the adapter.
AxiosConfig(contentType) == [ContentType |-> contentType, Authorization |-> NoHeader]

InitAuth ==
    /\ StreamIdle
    /\ BudgetIdle
    /\ ChatIdle
    /\ SearchFormIdle
    /\ DateIdle
    /\ FieldsIdle
    /\ KeycloakIdle
    /\ SidebarIdle
    /\ HybridIdle
    /\ SearchIdle
    /\ ConfigIdle
    /\ kcToken = 0
    /\ sent = <<>>

\* Keycloak logs the user in or refreshes the token.
TokenIssued(t) ==
    /\ kcToken' = t
    /\ UNCHANGED sent
    /\ UNCHANGED notAuth

\* Logout, or a token that Keycloak cleared.
TokenCleared ==
    /\ kcToken # 0
    /\ kcToken' = 0
    /\ UNCHANGED sent
    /\ UNCHANGED notAuth

\* chatApi.get/post/delete: sendMessage, createConversation, listConversations, ...
ChatApiRequest ==
    /\ Len(sent) < MaxSent
    /\ sent' = Append(sent, [client |-> "chatApi", token |-> kcToken,
                 headers |-> ChatApiInterceptor(AxiosConfig("application/json"), kcToken)])
    /\ UNCHANGED kcToken
    /\ UNCHANGED notAuth

\* chatService.streamMessage: the fetch of POST /chat/.
StreamFetchRequest ==
    /\ Len(sent) < MaxSent
    /\ sent' = Append(sent, [client |-> "fetch", token |-> kcToken,
                 headers |-> StreamFetchHeaders(kcToken)])
    /\ UNCHANGED kcToken
    /\ UNCHANGED notAuth

\* uploadAPI and configAPI: api.get/post/delete. The instance is created
\* with baseURL and timeout and no interceptor is registered on it.
ApiRequest(contentType) ==
    /\ Len(sent) < MaxSent
    /\ sent' = Append(sent, [client |-> "api", token |-> kcToken,
                 headers |-> AxiosConfig(contentType)])
    /\ UNCHANGED kcToken
    /\ UNCHANGED notAuth

NextAuth ==
    \/ \E t \in 1..MaxTokens : TokenIssued(t)
    \/ TokenCleared
    \/ ChatApiRequest
    \/ StreamFetchRequest
    \/ \E contentType \in {"application/json", "multipart/form-data"} :
         ApiRequest(contentType)

SpecAuth == InitAuth /\ [][NextAuth]_vars

\* C17: every request the frontend sends carries Authorization: Bearer <token>
\* with the token keycloakService held when it was made, and no Authorization
\* header when none was held.
C17_EveryRequestCarriesToken ==
    \A i \in 1..Len(sent) :
       sent[i].headers.Authorization =
         IF sent[i].token # 0 THEN Bearer(sent[i].token) ELSE NoHeader

\* ------------------------------------------- the conversation of a stream

\* The streaming sends whose POST /chat/ has been issued.
StreamRequests == { o \in ops : o.kind = "stream" /\ o.pc \in {"fetch", "reading"} }

\* C20: every streaming chat request carries a defined conversation_id, the
\* one created for it and adopted as current when none was current; when the
\* creation fails no chat request is sent, the placeholder is removed and
\* isStreaming is false.
C20_StreamHasConversation ==
    /\ \A o \in StreamRequests :
         /\ o.sid # 0
         /\ o.sid \in srvConvs
         /\ currentSessionId = o.sid
    /\ ev.type = "streamCreateFailed" =>
         /\ StreamRequests = {}
         /\ ~isStreaming
         /\ messages = Append(ev.base, UserMsg(ev.user))
         /\ currentSessionId = 0

\* A creation has failed for a send made on top of an earlier exchange.
C20_Witness ==
    /\ ev.type = "streamCreateFailed"
    /\ ev.before = Append(Append(ev.base, UserMsg(ev.user)), AsstMsg(<<>>))
    /\ error = "Failed to create session"

\* ------------------------------------------- navigation while a send is pending

\* The body followed when the user navigates during a stream: the longest
\* one, a chunk followed by an error line.
RaceBodies == { b \in ChatBodies : Len(b) = MaxBodyLen }

\* The sidebar stays usable while a reply is awaited: the handlers of the
\* chat turn interleave with loadSession, createNewSession and deleteSession.
\* The list requests succeed, each chunk is written as it arrives and one
\* sidebar request is pending at a time.
NextRace ==
    \/ \E o \in ops : ListReply(o, TRUE)
    \/ \E stream \in BOOLEAN : Submit(<<"q">>, stream)
    \/ \E o \in ops : SendReplyOk(o)
    \/ \E o \in ops : SendReloadDone(o, TRUE)
    \/ \E o \in ops : StreamCreateOk(o)
    \/ \E o \in ops, b \in RaceBodies : StreamFetchOk(o, b)
    \/ \E o \in ops, k \in 1..MaxBodyLen : StreamRead(o, k, FALSE)
    \/ \E sid \in sessions : NavOps = {} /\ SelectSession(sid)
    \/ \E o \in ops, hist \in Histories : LoadReplyOk(o, hist)
    \/ \E sid \in sessions : NavOps = {} /\ DeleteClick(sid)
    \/ \E o \in ops : DeleteReplyOk(o)
    \/ \E o \in ops : DeleteReloadDone(o, TRUE)
    \/ NavOps = {} /\ NewChat
    \/ \E o \in ops : CreateReplyOk(o)
    \/ \E o \in ops : CreateReloadDone(o, TRUE)

SpecRace == InitSessions /\ [][NextRace]_vars

\* The view still shows the turn of send o: what was shown when it was
\* submitted, then its user message.
InTurn(o) == IsPrefix(Append(o.base, UserMsg(o.user)), messages)

\* The messages a step of send o has to leave as they are: all of them,
\* but for the placeholder of o's own turn while it is the last one shown.
Kept(o) ==
    IF /\ o.kind = "stream"
       /\ InTurn(o)
       /\ Len(messages) = Len(o.base) + 2
       /\ Last(messages).role = "assistant"
    THEN Front(messages)
    ELSE messages

\* The conversation send o was made in: the current one of the render that
\* submitted it, or the one created for it.
SendConv(o) == IF o.kind = "send" THEN o.cs ELSE o.sid

\* C18: sending a message and receiving its reply only append to the
\* displayed list: a step of a send leaves every displayed message in place
\* and unchanged, except the placeholder of its own turn.
C18_SendOnlyAppends ==
    [][ \A o \in Sends : o \notin ops' => IsPrefix(Kept(o), messages') ]_vars

\* C19: a reply that arrives after the user has loaded, created or deleted
\* a conversation neither changes the messages now displayed nor replaces
\* currentSessionId: a step of a send changes them only while the view is
\* still that of the send's own turn and conversation.
C19_LateReplyLeavesView ==
    [][ \A o \in Sends : o \notin ops' =>
          \/ InTurn(o) /\ currentSessionId = SendConv(o)
          \/ messages' = messages /\ currentSessionId' = currentSessionId ]_vars

\* ------------------------------------------- the input after a send

\* C21: once a send has settled (reply, [DONE], error event, exception or
\* failed creation of the conversation) isLoading and isStreaming are both
\* false: no settled send leaves the message input disabled.
C21_SettledSendEnablesInput ==
    Sends = {} => ~isLoading /\ ~isStreaming

\* A stream has failed and the input takes the next message.
C21_Witness ==
    /\ ev.type = "streamFailed"
    /\ Sends = {}
    /\ ~InputLoading
    /\ CanSubmit(<<"q">>)

\* ------------------------------------------- the health check and the input

HealthFailures == {"network", "fail"}

\* C22: submission is enabled only while the last completed health check
\* answered 'ready': a failed check leaves serviceHealth null and
\* backendConnected false, a check that answers leaves its status, and
\* nothing but a completed check changes either.
C22_SubmitOnlyWhenReady ==
    [][ /\ (\E input \in Inputs : CanSubmit(input)) =>
             serviceHealth = "ready" /\ backendConnected
        /\ ev'.type = "health" =>
             IF ev'.result \in HealthFailures
             THEN serviceHealth' = "null" /\ ~backendConnected'
             ELSE serviceHealth' = ev'.result /\ backendConnected'
        /\ ev'.type # "health" =>
             UNCHANGED <<serviceHealth, backendConnected>> ]_vars

\* A health check has failed and the input refuses a message.
C22_Witness ==
    /\ ev.type = "health"
    /\ ev.result \in HealthFailures
    /\ serviceHealth = "null"
    /\ ~backendConnected
    /\ ~CanSubmit(<<"q">>)

\* ------------------------------------------- text deltas on the wire

\* Text deltas the model's server streams in one reply.
MaxDeltas == 2

\* What the chat model may generate as a piece of its answer: plain text, or
\* text that reads like one of the protocol's control words.
TextDeltas == { <<"a">>, DoneText, ErrorPrefix \o <<"x">> }

\* The server's framing of a reply: one `data: <textDelta>` line per delta,
\* then the terminating `data: [DONE]` line.
EncodeStream(ds) ==
    Terminated([i \in 1..Len(ds) |-> DataPrefix \o ds[i]] \o <<DataPrefix \o DoneText>>)

DeltaBodies == { EncodeStream(ds) : ds \in SeqsUpTo(TextDeltas, MaxDeltas) }

\* The deltas a body of DeltaBodies was framed from: the text of every line
\* before the terminating one.
SentDeltas(b) ==
    LET ls == Front(SplitNL(b))
    IN  [i \in 1..(Len(ls) - 1) |-> Slice(ls[i], Len(DataPrefix))]

\* streamMessage is called for a reply the server generates without failing.
InitDeltas ==
    /\ ViewIdle
    /\ BudgetIdle
    /\ ChatIdle
    /\ smPc = "fetch"
    /\ respKind \in {"exception", "httpError", "noBody", "ok"}
    /\ body \in IF respKind = "ok" THEN DeltaBodies ELSE { EncodeStream(<<>>) }
    /\ rest = body
    /\ buffer = <<>>
    /\ calls = <<>>
    /\ outcome = "none"

\* The steps of streamMessage on such a reply; every body ends with its
\* terminating line, so no read reports done before streamMessage returns.
NextDeltas ==
    \/ FetchFails
    \/ FetchOk
    \/ \E k \in 1..Len(rest) : Read(k)
    \/ ReadFails

SpecDeltas == InitDeltas /\ [][NextDeltas]_vars

\* C23: no text delta is interpreted as a control event: whatever a delta
\* holds it is delivered to onChunk, and it neither completes nor fails the
\* stream; only the terminating line completes it.
C23_DeltasAreNeverControl ==
    /\ IsPrefix(ChunkArgs(calls), SentDeltas(body))
    /\ outcome # "errorEvent"
    /\ outcome = "doneEvent" => ChunkArgs(calls) = SentDeltas(body)

\* ------------------------------------------- keycloakService and KeycloakProvider

\* KeycloakProvider instances followed per run.
MaxMounts == 3

\* What a run of init() meets: the session found by keycloak.init, a
\* configuration without its fields, an exception of the fetch, or a
\* keycloak.init that rejects after the Keycloak object was created.
InitOutcomes == {"authenticated", "anonymous", "configMissing", "exception", "initRejects"}

\* keycloakService.getUser(): the parsed token's user, null without a token.
GetUser(session) == IF session \in {"authenticated", "expired"} THEN "user" ELSE "null"

\* KeycloakService.init(): what it resolves to and what it leaves in the
\* service. An initialized service resolves true at once; otherwise the
\* configuration is fetched and keycloak.init answers whether the session is
\* authenticated; a missing configuration and any exception resolve false.
ServiceInit(initialized, session, met) ==
    IF initialized
    THEN [resolved |-> TRUE, initialized |-> TRUE, session |-> session]
    ELSE IF met \in {"configMissing", "exception"}
    THEN [resolved |-> FALSE, initialized |-> FALSE, session |-> session]
    ELSE IF met = "initRejects"
    THEN [resolved |-> FALSE, initialized |-> FALSE, session |-> "anonymous"]
    ELSE [resolved |-> met = "authenticated", initialized |-> TRUE,
          session |-> met]

InitKeycloak ==
    /\ StreamIdle
    /\ BudgetIdle
    /\ ChatIdle
    /\ SearchFormIdle
    /\ DateIdle
    /\ FieldsIdle
    /\ SidebarIdle
    /\ HybridIdle
    /\ SearchIdle
    /\ ConfigIdle
    /\ AuthIdle
    /\ KeycloakIdle

\* KeycloakProvider is mounted (again, after the instance before it was
\* unmounted): fresh state, and the effect calls initKeycloak, which sets
\* isLoading and awaits keycloakService.init(). The service is a module
\* singleton and outlives the provider.
Mount ==
    /\ provPc # "init"
    /\ ~refreshPending
    /\ nMounts < MaxMounts
    /\ nMounts' = nMounts + 1
    /\ provUser' = "null"
    /\ provAuth' = FALSE
    /\ provLoading' = TRUE
    /\ provPc' = "init"
    /\ kcEv' = [type |-> "mount"]
    /\ UNCHANGED <<kcInitialized, kcSession, refreshPending>>
    /\ UNCHANGED notKeycloak

\* An initKeycloak without its finally block.
InitSettledKeepsLoading(met) ==
    /\ provPc = "init"
    /\ LET r == ServiceInit(kcInitialized, kcSession, met)
       IN /\ kcInitialized' = r.initialized
          /\ kcSession' = r.session
          /\ provUser' = IF r.resolved THEN GetUser(r.session) ELSE "null"
          /\ provAuth' = r.resolved
          /\ kcEv' = [type |-> "init", resolved |-> r.resolved, outcome |-> met]
    /\ provLoading' = provLoading
    /\ provPc' = "ready"
    /\ UNCHANGED <<refreshPending, nMounts>>
    /\ UNCHANGED notKeycloak

\* initKeycloak after its await: the state is set from what init() resolved
\* to, the listeners are registered, and the finally block clears isLoading.
InitSettled(met) ==
    /\ provPc = "init"
    /\ LET r == ServiceInit(kcInitialized, kcSession, met)
       IN /\ kcInitialized' = r.initialized
          /\ kcSession' = r.session
          /\ provUser' = IF r.resolved THEN GetUser(r.session) ELSE "null"
          /\ provAuth' = r.resolved
          /\ kcEv' = [type |-> "init", resolved |-> r.resolved, outcome |-> met]
    /\ provLoading' = FALSE
    /\ provPc' = "ready"
    /\ UNCHANGED <<refreshPending, nMounts>>
    /\ UNCHANGED notKeycloak

\* keycloak-js reports that the access token expired: the handler starts
\* keycloakService.updateToken().
TokenExpired ==
    /\ provPc = "ready"
    /\ kcSession = "authenticated"
    /\ ~refreshPending
    /\ refreshPending' = TRUE
    /\ kcEv' = [type |-> "tokenExpired"]
    /\ UNCHANGED <<kcInitialized, kcSession, provUser, provAuth, provLoading, provPc,
                   nMounts>>
    /\ UNCHANGED notKeycloak

\* The refresh succeeds: onAuthRefreshSuccess sets the user again.
RefreshOk ==
    /\ refreshPending
    /\ refreshPending' = FALSE
    /\ provUser' = GetUser(kcSession)
    /\ kcEv' = [type |-> "refreshed"]
    /\ UNCHANGED <<kcInitialized, kcSession, provAuth, provLoading, provPc, nMounts>>
    /\ UNCHANGED notKeycloak

\* The refresh fails. keycloak-js may report it through onAuthRefreshError
\* (notified), whose handler resets the provider. keycloakService.updateToken
\* catches the rejection and resolves false, so the catch callback of the
\* token-expired handler does not run.
RefreshFail(notified) ==
    /\ refreshPending
    /\ refreshPending' = FALSE
    /\ kcSession' = "expired"
    /\ provUser' = IF notified THEN "null" ELSE provUser
    /\ provAuth' = IF notified THEN FALSE ELSE provAuth
    /\ kcEv' = [type |-> "refreshFailed", notified |-> notified]
    /\ UNCHANGED <<kcInitialized, provLoading, provPc, nMounts>>
    /\ UNCHANGED notKeycloak

\* keycloak-js reports a login (the silent check or another tab signed in):
\* onAuthSuccess sets the user and isAuthenticated.
AuthSuccess ==
    /\ provPc = "ready"
    /\ kcSession = "anonymous"
    /\ kcSession' = "authenticated"
    /\ provUser' = GetUser("authenticated")
    /\ provAuth' = TRUE
    /\ kcEv' = [type |-> "login"]
    /\ UNCHANGED <<kcInitialized, refreshPending, provLoading, provPc, nMounts>>
    /\ UNCHANGED notKeycloak

\* The session ends (logout in this or another tab): onAuthLogout resets.
AuthLogout ==
    /\ provPc = "ready"
    /\ kcSession \in {"authenticated", "expired"}
    /\ ~refreshPending
    /\ kcSession' = "anonymous"
    /\ provUser' = "null"
    /\ provAuth' = FALSE
    /\ kcEv' = [type |-> "logout"]
    /\ UNCHANGED <<kcInitialized, refreshPending, provLoading, provPc, nMounts>>
    /\ UNCHANGED notKeycloak

NextKeycloak ==
    \/ Mount
    \/ \E met \in InitOutcomes : InitSettled(met)
    \/ TokenExpired
    \/ RefreshOk
    \/ \E notified \in BOOLEAN : RefreshFail(notified)
    \/ AuthLogout
    \/ AuthSuccess

SpecKeycloak == InitKeycloak /\ [][NextKeycloak]_vars

\* C24: keycloakService.init() resolves true only when the Keycloak session
\* is authenticated, on the first call and on every later one, so that
\* KeycloakProvider sets isAuthenticated only for an authenticated user.
C24_InitTrueOnlyIfAuthenticated ==
    kcEv.type = "init" =>
      /\ kcEv.resolved => kcSession = "authenticated"
      /\ provAuth => kcSession = "authenticated" /\ provUser # "null"

\* C25: when the refresh started by the token-expired handler fails, the
\* provider is reset to the unauthenticated state.
C25_FailedRefreshResets ==
    kcEv.type = "refreshFailed" => provUser = "null" /\ ~provAuth

\* C26: isLoading is true from mount until initialization finishes, false
\* after every met of init(), and within one provider instance never
\* true again once it was false.
C26_LoadingUntilInitSettles ==
    [][ /\ provPc' = "init" => provLoading'
        /\ provPc' = "ready" => ~provLoading'
        /\ (~provLoading /\ nMounts' = nMounts) => ~provLoading' ]_vars

\* init() has failed on an exception and isLoading is cleared.
C26_Witness ==
    /\ kcEv.type = "init"
    /\ kcEv.outcome = "exception"
    /\ ~kcEv.resolved
    /\ provPc = "ready"
    /\ ~provLoading

\* ------------------------------------------- the fields of the embedder form

\* The Max Retries input: min="0" max="10".
MaxRetriesMax == 10

\* The Max Retries fallback: `|| 3`.
DefaultMaxRetries == 3

\* parseInt of text that holds no number.
NaN == -1

\* parseInt(e.target.value) for the text of a number input: empty, or the
\* digits of a number below 100.
ParseInt(text) ==
    IF text = <<>> THEN NaN
    ELSE CHOOSE n \in 0..99 : Digits(n) = text

\* a || b on numbers: NaN and 0 are falsy.
NumberOr(a, b) == IF a = NaN \/ a = 0 THEN b ELSE a

\* a || b on booleans.
BoolOr(a, b) == IF a THEN a ELSE b

\* What the controls show for the stored settings.
ShownMaxRetries(settings) == NumberOr(settings.max_retries, DefaultMaxRetries)

ShownChecked(settings, field) == BoolOr(settings[field], TRUE)

\* The text a user can leave in the Max Retries input: a number of its
\* range, or nothing.
MaxRetriesTexts == { Digits(n) : n \in 0..MaxRetriesMax } \cup { <<>> }

InitFields ==
    /\ StreamIdle
    /\ BudgetIdle
    /\ ChatIdle
    /\ SearchFormIdle
    /\ DateIdle
    /\ SidebarIdle
    /\ HybridIdle
    /\ SearchIdle
    /\ ConfigIdle
    /\ AuthIdle
    /\ KeycloakIdle
    /\ FieldsIdle

\* onChange of Max Retries.
MaxRetriesEdit(text) ==
    /\ openaiSettings' =
         [openaiSettings EXCEPT !.max_retries = NumberOr(ParseInt(text), DefaultMaxRetries)]
    /\ fieldEdit' = [field |-> "max_retries", text |-> text]
    /\ UNCHANGED notFields

\* onChange of the Strip New Lines and Skip Empty Texts checkboxes.
CheckboxEdit(field, checked) ==
    /\ openaiSettings' = [openaiSettings EXCEPT ![field] = checked]
    /\ fieldEdit' = [field |-> field, checked |-> checked]
    /\ UNCHANGED notFields

NextFields ==
    \/ \E text \in MaxRetriesTexts : MaxRetriesEdit(text)
    \/ \E field \in {"strip_new_lines", "skip_empty"}, checked \in BOOLEAN :
         CheckboxEdit(field, checked)

SpecFields == InitFields /\ [][NextFields]_vars

\* C27: in the embedder form the value stored after an edit and the value
\* the control then shows both equal the value entered, for max_retries
\* over 0..10 and for both states of the two checkboxes.
C27_FieldKeepsEnteredValue ==
    /\ (fieldEdit.field = "max_retries" /\ fieldEdit.text # <<>>) =>
         /\ Digits(openaiSettings.max_retries) = fieldEdit.text
         /\ Digits(ShownMaxRetries(openaiSettings)) = fieldEdit.text
    /\ fieldEdit.field \in {"strip_new_lines", "skip_empty"} =>
         /\ openaiSettings[fieldEdit.field] = fieldEdit.checked
         /\ ShownChecked(openaiSettings, fieldEdit.field) = fieldEdit.checked

\* ------------------------------------------------- formatDate on its own

\* Days a formatted timestamp lies before the first render at most.
MaxDaysBack == 9

\* The timestamps formatted: from MaxDaysBack days before the first render
\* to MaxTicks hours after it, hour by hour.
DateStrings == (NowBase - MaxDaysBack * HoursPerDay)..(NowBase + MaxTicks)

\* The times of a call.
DateNows == NowBase..(NowBase + MaxTicks)

InitFormatDate ==
    /\ StreamIdle
    /\ BudgetIdle
    /\ ChatIdle
    /\ SearchFormIdle
    /\ SidebarIdle
    /\ HybridIdle
    /\ SearchIdle
    /\ ConfigIdle
    /\ AuthIdle
    /\ KeycloakIdle
    /\ FieldsIdle
    /\ dateString = 0
    /\ dateNow \in DateNows
    /\ dateLabel = <<>>

\* formatDate(session.last_activity) for one timestamp.
FormatDateCall(t) ==
    /\ dateString' = t
    /\ dateLabel' = FormatDate(t, dateNow)
    /\ UNCHANGED dateNow
    /\ UNCHANGED notDate

\* The clock advances between two calls.
ClockTick(d) ==
    /\ dateNow + d <= NowBase + MaxTicks
    /\ dateNow' = dateNow + d
    /\ UNCHANGED <<dateString, dateLabel>>
    /\ UNCHANGED notDate

NextFormatDate ==
    \/ \E t \in DateStrings : FormatDateCall(t)
    \/ \E d \in 1..MaxTicks : ClockTick(d)

SpecFormatDate == InitFormatDate /\ [][NextFormatDate]_vars

\* 'N days ago' for the positive day counts.
PositiveDaysAgo == { Digits(n) \o DaysAgoText : n \in 1..99 }

\* C28: formatDate maps every timestamp, one equal to the current time
\* included, to 'Today', 'Yesterday', 'N days ago' with a positive N, or
\* the locale date.
C28_LabelIsNeverZeroOrNegative ==
    dateLabel # <<>> =>
        \/ dateLabel \in {TodayText, YesterdayText}
        \/ dateLabel \in PositiveDaysAgo
        \/ dateLabel = DateText(dateString)

\* ------------------------------------------------- SearchInterface's form

\* Requests one modelled run posts at most.
MaxSearches == 3

\* searchResponse === null
NoResponse == [null |-> TRUE]

\* What the user types into the query field.
Queries == { <<>>, <<" ">>, <<"q">>, <<" ", "q", " ">> }

\* response.results of a successful search: chunk ids, best first.
ResultLists == { <<>>, <<1>>, <<2, 1>> }

\* err.response?.data?.detail: "undefined" when the error has no response or
\* no detail, else the detail, which may be empty.
ErrorDetails == { "undefined", "", "Search failed: index unavailable" }

\* err.response?.data?.detail || 'Failed to search documents'
SearchErrorText(detail) ==
    IF detail \in {"undefined", ""} THEN "Failed to search documents" ELSE detail

InitSearchForm ==
    /\ StreamIdle
    /\ BudgetIdle
    /\ ChatIdle
    /\ SidebarIdle
    /\ HybridIdle
    /\ SearchIdle
    /\ ConfigIdle
    /\ AuthIdle
    /\ KeycloakIdle
    /\ FieldsIdle
    /\ DateIdle
    /\ SearchFormIdle

\* onChange of the query field.
SetQuery(q) ==
    /\ query' = q
    /\ searchEv' = [type |-> "typed"]
    /\ UNCHANGED <<results, loading, searchResponse, searchError, searchOps, searchRequests>>
    /\ UNCHANGED notSearchForm

\* handleSearch with a query that is empty once trimmed: the early return.
HandleSearchBlank ==
    /\ Trim(query) = <<>>
    /\ searchError' = "Please enter a search query"
    /\ searchEv' = [type |-> "blank", requestsBefore |-> searchRequests]
    /\ UNCHANGED <<query, results, loading, searchResponse, searchOps, searchRequests>>
    /\ UNCHANGED notSearchForm

\* handleSearch up to its await: the request is posted.
HandleSearch ==
    /\ Trim(query) # <<>>
    /\ Len(searchRequests) < MaxSearches
    /\ loading' = TRUE
    /\ searchError' = "none"
    /\ searchRequests' = Append(searchRequests, [query |-> Trim(query)])
    /\ searchOps' = searchOps \cup {[id |-> Len(searchRequests) + 1, query |-> Trim(query)]}
    /\ searchEv' = [type |-> "searchSent"]
    /\ UNCHANGED <<query, results, searchResponse>>
    /\ UNCHANGED notSearchForm

\* The await returns a response: the try block's rest, then finally.
SearchReplyOk(o, found) ==
    /\ o \in searchOps
    /\ results' = found
    /\ searchResponse' = [null |-> FALSE, query |-> o.query, results |-> found]
    /\ loading' = FALSE
    /\ searchOps' = searchOps \ {o}
    /\ searchEv' = [type |-> "searchOk", resultsBefore |-> results]
    /\ UNCHANGED <<query, searchError, searchRequests>>
    /\ UNCHANGED notSearchForm

\* A catch block that sets the error and leaves what is shown.
SearchReplyFailKeepsResults(o, detail) ==
    /\ o \in searchOps
    /\ searchError' = SearchErrorText(detail)
    /\ loading' = FALSE
    /\ searchOps' = searchOps \ {o}
    /\ searchEv' = [type |-> "searchFailed", resultsBefore |-> results]
    /\ UNCHANGED <<query, results, searchResponse, searchRequests>>
    /\ UNCHANGED notSearchForm

\* The await throws: the catch block, then finally.
SearchReplyFail(o, detail) ==
    /\ o \in searchOps
    /\ searchError' = SearchErrorText(detail)
    /\ results' = <<>>
    /\ searchResponse' = NoResponse
    /\ loading' = FALSE
    /\ searchOps' = searchOps \ {o}
    /\ searchEv' = [type |-> "searchFailed", resultsBefore |-> results]
    /\ UNCHANGED <<query, searchRequests>>
    /\ UNCHANGED notSearchForm

NextSearchForm ==
    \/ \E q \in Queries : SetQuery(q)
    \/ HandleSearchBlank
    \/ HandleSearch
    \/ \E o \in searchOps, found \in ResultLists : SearchReplyOk(o, found)
    \/ \E o \in searchOps, detail \in ErrorDetails : SearchReplyFail(o, detail)

SpecSearchForm == InitSearchForm /\ [][NextSearchForm]_vars

\* C29: after a failed search nothing of an earlier search is shown and an
\* error is set; after every search that succeeded or failed loading is
\* false; a query that is empty once trimmed posts no request.
C29_FailedSearchClearsResults ==
    /\ searchEv.type = "searchFailed" =>
         /\ results = <<>>
         /\ searchResponse = NoResponse
         /\ searchError \notin {"none", ""}
    /\ searchEv.type \in {"searchOk", "searchFailed"} => ~loading
    /\ searchEv.type = "blank" => searchRequests = searchEv.requestsBefore
    /\ \A i \in 1..Len(searchRequests) : Trim(searchRequests[i].query) # <<>>

\* A search fails while the results of an earlier one are shown.
C29_Witness ==
    /\ searchEv.type = "searchFailed"
    /\ searchEv.resultsBefore # <<>>
    /\ results = <<>>
    /\ ~loading

\* ------------------------------------------- deleting a conversation

\* The sidebar while a deletion is awaited: the user opens conversations and
\* deletes others before the DELETE request and the reload are answered.
NextDeleteRace ==
    \/ \E o \in ops : ListReply(o, TRUE)
    \/ \E sid \in sessions : SelectSession(sid)
    \/ \E o \in ops, hist \in Histories : LoadReplyOk(o, hist)
    \/ \E sid \in sessions : DeleteClick(sid)
    \/ \E o \in ops : DeleteReplyOk(o)
    \/ \E o \in ops : DeleteReplyNotFound(o)
    \/ \E o \in ops : DeleteReplyFail(o)
    \/ \E o \in ops, ok \in BOOLEAN : DeleteReloadDone(o, ok)

SpecDeleteRace == InitSessions /\ [][NextDeleteRace]_vars

\* C30: a successful deleteSession(id) clears the chat view exactly when id
\* is the conversation displayed as the deletion completes, and leaves
\* currentSessionId and the messages as they are otherwise; a failed
\* deletion changes nothing but the error.
C30_DeleteClearsOnlyDisplayed ==
    [][ \A o \in ops : (o.kind = "delete" /\ o \notin ops') =>
          IF o.pc = "reload"
          THEN IF currentSessionId = o.sid
               THEN currentSessionId' = 0 /\ messages' = <<>>
               ELSE UNCHANGED <<currentSessionId, messages>>
          ELSE srvConvs' = srvConvs =>
                 UNCHANGED <<messages, sessions, currentSessionId, isLoading,
                             isStreaming>> ]_vars

====
